---- MODULE Spec2Model ----
(***************************************************************************)
(* Windowing-and-triggering core of google/cloud/dataflow/transforms/      *)
(* trigger.py: the in-memory state backend, the merge adapter, the trigger *)
(* functions and the two trigger drivers, as a state machine whose actions *)
(* are the drivers' process_elements and process_timer calls.              *)
(***************************************************************************)
EXTENDS Integers, Sequences, FiniteSets, TLC

VARIABLES
  cfg,           \* the windowing: [wfn, trigger, mode], fixed at construction
  timers,        \* InMemoryUnmergedState.timers   : <<id, tag>> -> timestamp
  state,         \* InMemoryUnmergedState.state    : <<id, tag name>> -> list
  global_state,  \* InMemoryUnmergedState.global_state['window_ids']
  out,           \* the panes yielded by the last driver call
  last,          \* what the last driver call was and how it ended
  panes,         \* history: every pane yielded so far, in order, with its call
  written,       \* history: element -> window whose ELEMENTS it was added to
  nelems,        \* history: number of elements delivered so far
  ntimers,       \* history: number of process_timer calls so far
  counter,       \* MergeableStateAdapter.counter of the adapter in use (<<>>: None)
  hist           \* history of the calls made directly on an adapter or a backend

vars ==
  <<cfg, timers, state, global_state, out, last, panes, written, nelems, ntimers,
    counter, hist>>

-----------------------------------------------------------------------------
(* Bounds of the model.                                                    *)

\* elements delivered to process_elements over a behaviour
MaxElems == 3
\* process_timer calls over a behaviour
MaxTimerCalls == 2

\* event times of the delivered elements
Timestamps == 0 .. 2
\* timestamps a process_timer call may carry
TimerStamps == 2 .. 4
\* values delivered by one process_elements call
BatchSizes == 1 .. 2

-----------------------------------------------------------------------------
(* Small helpers.                                                          *)

Range(s) == {s[i] : i \in DOMAIN s}

Front(s) == SubSeq(s, 1, Len(s) - 1)

Last(s) == s[Len(s)]

Drop(f, keys) == [k \in DOMAIN f \ keys |-> f[k]]

Put(f, k, v) == [x \in DOMAIN f \cup {k} |-> IF x = k THEN v ELSE f[x]]

Get(f, k, default) == IF k \in DOMAIN f THEN f[k] ELSE default

EmptyMap == <<>>

RECURSIVE Sum(_)
Sum(s) == IF s = <<>> THEN 0 ELSE s[1] + Sum(Tail(s))

RECURSIVE Flatten(_)
Flatten(ss) == IF ss = <<>> THEN <<>> ELSE ss[1] \o Flatten(Tail(ss))

MaxOf(S) == CHOOSE m \in S : \A x \in S : x <= m

\* float('-inf'), below every timestamp
NegInf == -1

-----------------------------------------------------------------------------
(* AccumulationMode and the state tags.                                    *)

DISCARDING == "DISCARDING"

ACCUMULATING == "ACCUMULATING"

ValueStateTag(name) == [name |-> name, variant |-> "Value", fn |-> "none"]

CombiningValueStateTag(name, fn) == [name |-> name, variant |-> "Combining", fn |-> fn]

ListStateTag(name) == [name |-> name, variant |-> "List", fn |-> "none"]

with_prefix(tag, prefix) == [tag EXCEPT !.name = prefix \o @]

\* the tag None of clear_state(window, None)
NoTag == [name |-> "", variant |-> "None", fn |-> "none"]

(* The combine functions the core uses: CountCombineFn, any, and the index *)
(* maximum of AfterEach.  combine_apply is CombineFn.apply on the raw      *)
(* list of added values, combine_merge is extract_output of                *)
(* merge_accumulators on the per-id results.                               *)
combine_apply(fn, values) ==
  CASE fn = "count" -> Len(values)
    [] fn = "any"   -> \E i \in DOMAIN values : values[i] = TRUE
    [] fn = "max"   -> IF values = <<>> THEN 0 ELSE MaxOf(Range(values))

combine_merge(fn, results) ==
  CASE fn = "count" -> Sum(results)
    [] fn = "any"   -> \E i \in DOMAIN results : results[i] = TRUE
    [] fn = "max"   -> IF results = <<>> THEN 0 ELSE MaxOf(Range(results))

-----------------------------------------------------------------------------
(* InMemoryUnmergedState.  The backend is threaded through the calls of a  *)
(* driver invocation as a record st:                                       *)
(*   timers, state, global_state : the backend's three tables              *)
(*   window_ids, counter         : the MergeableStateAdapter built by the  *)
(*                                 call (counter is <<>> for None)         *)
(*   err                         : the exception that ended the call, ""   *)
(*   ev                          : the trigger calls made, in call order   *)

Raw_set_global_state(st, value) == [st EXCEPT !.global_state = value]

Raw_get_global_state(st, default) == st.global_state

\* a variant that keeps the timestamp a timer already has
Raw_set_timer_first(st, window, tag, timestamp) ==
  [st EXCEPT !.timers = Put(@, <<window, tag>>, Get(@, <<window, tag>>, timestamp))]

Raw_set_timer(st, window, tag, timestamp) ==
  [st EXCEPT !.timers = Put(@, <<window, tag>>, timestamp)]

Raw_clear_timer(st, window, tag) ==
  [st EXCEPT !.timers = Drop(@, {<<window, tag>>})]

Raw_add_state(st, window, tag, value) ==
  IF tag.variant = "Value"
    THEN [st EXCEPT !.state = Put(@, <<window, tag.name>>, value)]
  ELSE IF tag.variant \in {"Combining", "List"}
    THEN [st EXCEPT !.state =
            Put(@, <<window, tag.name>>, Append(Get(@, <<window, tag.name>>, <<>>), value))]
  ELSE [st EXCEPT !.err = "ValueError"]

Raw_get_state(st, window, tag) ==
  LET values == Get(st.state, <<window, tag.name>>, <<>>)
  IN  IF tag.variant = "Combining" THEN combine_apply(tag.fn, values) ELSE values

Raw_clear_state(st, window, tag) ==
  IF tag = NoTag
    THEN [st EXCEPT !.state = Drop(@, {k \in DOMAIN @ : k[1] = window})]
    ELSE [st EXCEPT !.state = Drop(@, {<<window, tag.name>>})]

\* float('inf'), above every timestamp
PosInf == 5

\* what get_and_clear_timers returns, as (window, (tag, timestamp)); the list
\* is in the order the dicts are iterated in
expired_timers(st, watermark) ==
  {<<k[1], <<k[2], st.timers[k]>>>> :
     k \in {x \in DOMAIN st.timers : st.timers[x] <= watermark}}

\* a variant that leaves the timers of the watermark itself
Raw_get_and_clear_timers_below(st, watermark) ==
  [st EXCEPT !.timers = [k \in {x \in DOMAIN @ : @[x] >= watermark} |-> @[k]]]

\* the backend get_and_clear_timers leaves
Raw_get_and_clear_timers(st, watermark) ==
  [st EXCEPT !.timers = [k \in {x \in DOMAIN @ : @[x] > watermark} |-> @[k]]]

-----------------------------------------------------------------------------
(* MergeableStateAdapter: every window is indirected through its list of   *)
(* internal ids; state is read over all ids and written to the first.      *)

\* __init__: the id map is read from global state, the counter is None
Adapter_init(raw) ==
  [timers |-> raw.timers, state |-> raw.state, global_state |-> raw.global_state,
   window_ids |-> Raw_get_global_state(raw, EmptyMap), counter |-> <<>>,
   err |-> "", ev |-> <<>>]

_persist_window_ids(st) == Raw_set_global_state(st, st.window_ids)

_get_ids(st, window) == Get(st.window_ids, window, <<>>)

AllIds(window_ids) == UNION {Range(window_ids[w]) : w \in DOMAIN window_ids}

\* returns the backend with the counter advanced; the new id is its counter
_get_next_counter(st) ==
  LET c == IF DOMAIN st.window_ids = {} THEN 0
           ELSE IF st.counter = <<>> THEN MaxOf(AllIds(st.window_ids))
           ELSE st.counter[1]
  IN  IF DOMAIN st.window_ids # {} /\ st.counter = <<>> /\ AllIds(st.window_ids) = {}
        THEN [st EXCEPT !.err = "ValueError"]
        ELSE [st EXCEPT !.counter = <<c + 1>>]

\* "self.window_ids[window] = [window_id]; self._persist_window_ids()", s1 the
\* adapter after _get_next_counter
register_id(s1, window) ==
  IF s1.err # "" THEN [st |-> s1, id |-> 0]
  ELSE [st |-> _persist_window_ids(
                 [s1 EXCEPT !.window_ids = Put(@, window, <<s1.counter[1]>>)]),
        id |-> s1.counter[1]]

\* a variant that returns the last id of a known window
_get_id_last(st, window) ==
  IF window \in DOMAIN st.window_ids
    THEN [st |-> st, id |-> Last(st.window_ids[window])]
    ELSE register_id(_get_next_counter(st), window)

\* returns [st, id]
_get_id(st, window) ==
  IF window \in DOMAIN st.window_ids
    THEN [st |-> st, id |-> st.window_ids[window][1]]
    ELSE register_id(_get_next_counter(st), window)

\* raw_state.set_timer at the id r = [st, id] that _get_id returned
set_timer_at(r, tag, timestamp) ==
  IF r.st.err # "" THEN r.st ELSE Raw_set_timer(r.st, r.id, tag, timestamp)

Adapter_set_timer(st, window, tag, timestamp) ==
  IF st.err # "" THEN st ELSE set_timer_at(_get_id(st, window), tag, timestamp)

RECURSIVE clear_timer_ids(_, _, _)
clear_timer_ids(st, ids, timer) ==
  IF ids = <<>> THEN st
  ELSE clear_timer_ids(Raw_clear_timer(st, ids[1], timer), Tail(ids), timer)

Adapter_clear_timer(st, window, timer) ==
  IF st.err # "" THEN st ELSE clear_timer_ids(st, _get_ids(st, window), timer)

\* raw_state.add_state at the id r = [st, id] that _get_id returned
add_state_at(r, tag, value) ==
  IF r.st.err # "" THEN r.st ELSE Raw_add_state(r.st, r.id, tag, value)

\* a variant that takes the window's id before it looks at the tag
Adapter_add_state_id_first(st, window, tag, value) ==
  IF st.err # "" THEN st
  ELSE IF tag.variant = "Value"
    THEN [_get_id(st, window).st EXCEPT !.err = "ValueError"]
  ELSE add_state_at(_get_id(st, window), tag, value)

Adapter_add_state(st, window, tag, value) ==
  IF st.err # "" THEN st
  ELSE IF tag.variant = "Value" THEN [st EXCEPT !.err = "ValueError"]
  ELSE add_state_at(_get_id(st, window), tag, value)

\* "values = [self.raw_state.get_state(window_id, tag) for window_id in ...]"
raw_values(st, ids, tag) == [i \in DOMAIN ids |-> Raw_get_state(st, ids[i], tag)]

\* a variant that reads a combining tag under the first id only
merged_value_first(tag, values) ==
  IF tag.variant = "Combining"
    THEN IF values = <<>> THEN combine_apply(tag.fn, <<>>) ELSE values[1]
    ELSE Flatten(values)

\* what get_state makes of the per-id values
merged_value(tag, values) ==
  IF tag.variant = "Combining"
    THEN IF values = <<>> THEN combine_apply(tag.fn, <<>>)
         ELSE IF Len(values) = 1 THEN values[1]
         ELSE combine_merge(tag.fn, values)
    ELSE Flatten(values)

\* the value read; Adapter_get_state_fails tells whether the read raises
Adapter_get_state(st, window, tag) ==
  merged_value(tag, raw_values(st, _get_ids(st, window), tag))

Adapter_get_state_fails(st, window, tag) == tag.variant \notin {"Combining", "List"}

RECURSIVE clear_state_ids(_, _, _)
clear_state_ids(st, ids, tag) ==
  IF ids = <<>> THEN st
  ELSE clear_state_ids(Raw_clear_state(st, ids[1], tag), Tail(ids), tag)

\* a variant that deletes every window from the map
forget_window_all(s1, window, tag) ==
  IF tag # NoTag THEN s1
  ELSE IF window \notin DOMAIN s1.window_ids THEN [s1 EXCEPT !.err = "KeyError"]
  ELSE _persist_window_ids([s1 EXCEPT !.window_ids = EmptyMap])

\* "if tag is None: del self.window_ids[window]; self._persist_window_ids()"
forget_window(s1, window, tag) ==
  IF tag # NoTag THEN s1
  ELSE IF window \notin DOMAIN s1.window_ids THEN [s1 EXCEPT !.err = "KeyError"]
  ELSE _persist_window_ids([s1 EXCEPT !.window_ids = Drop(@, {window})])

Adapter_clear_state(st, window, tag) ==
  IF st.err # "" THEN st
  ELSE forget_window(clear_state_ids(st, _get_ids(st, window), tag), window, tag)

\* a variant that leaves the window merged away in the map, with its ids
merge_one_keeping(st, window, merge_result) ==
  IF window # merge_result /\ window \in DOMAIN st.window_ids
    THEN _persist_window_ids(
           [st EXCEPT !.window_ids =
              Put(@, merge_result, Get(@, merge_result, <<>>) \o @[window])])
    ELSE st

\* a variant that moves the ids of the window and does not persist the map
merge_one_unpersisted(st, window, merge_result) ==
  IF window # merge_result /\ window \in DOMAIN st.window_ids
    THEN [st EXCEPT !.window_ids =
            Put(Drop(@, {window}), merge_result,
                Get(@, merge_result, <<>>) \o @[window])]
    ELSE st

\* a variant that puts the ids of the window in front of the result's
merge_one_prepending(st, window, merge_result) ==
  IF window # merge_result /\ window \in DOMAIN st.window_ids
    THEN _persist_window_ids(
           [st EXCEPT !.window_ids =
              Put(Drop(@, {window}), merge_result,
                  @[window] \o Get(@, merge_result, <<>>))])
    ELSE st

\* one round of the loop of merge, for one window of to_be_merged
merge_one(st, window, merge_result) ==
  IF window # merge_result /\ window \in DOMAIN st.window_ids
    THEN _persist_window_ids(
           [st EXCEPT !.window_ids =
              Put(Drop(@, {window}), merge_result,
                  Get(@, merge_result, <<>>) \o @[window])])
    ELSE st

RECURSIVE Adapter_merge(_, _, _)
Adapter_merge(st, to_be_merged, merge_result) ==
  IF st.err # "" \/ to_be_merged = <<>> THEN st
  ELSE Adapter_merge(merge_one(st, to_be_merged[1], merge_result),
                     Tail(to_be_merged), merge_result)

known_windows(st) == DOMAIN st.window_ids

\* the windows whose id list holds timer_id: get_window returns one of them,
\* and raises ValueError when there is none
windows_of(st, timer_id) ==
  {w \in DOMAIN st.window_ids : timer_id \in Range(st.window_ids[w])}

-----------------------------------------------------------------------------
(* TriggerContext and NestedContext.  A context is the window it is bound  *)
(* to and the chain of NestedContext prefixes around the TriggerContext,   *)
(* outermost first; an operation passes through the chain from the         *)
(* innermost NestedContext outwards, each adding its prefix in front.      *)

TriggerContext(window) == [window |-> window, chain |-> <<>>]

\* a variant that puts the prefix of the inner context outermost
NestedContext_outermost(outer, prefix) == [outer EXCEPT !.chain = <<prefix>> \o @]

NestedContext(outer, prefix) == [outer EXCEPT !.chain = Append(@, prefix)]

RECURSIVE nested_timer(_, _)
nested_timer(chain, tag) ==
  IF chain = <<>> THEN tag ELSE nested_timer(Front(chain), Last(chain) \o tag)

RECURSIVE nested_tag(_, _)
nested_tag(chain, tag) ==
  IF chain = <<>> THEN tag ELSE nested_tag(Front(chain), with_prefix(tag, Last(chain)))

ctx_set_timer(st, context, tag, timestamp) ==
  Adapter_set_timer(st, context.window, nested_timer(context.chain, tag), timestamp)

ctx_clear_timer(st, context, tag) ==
  Adapter_clear_timer(st, context.window, nested_timer(context.chain, tag))

ctx_add_state(st, context, tag, value) ==
  Adapter_add_state(st, context.window, nested_tag(context.chain, tag), value)

ctx_get_state(st, context, tag) ==
  Adapter_get_state(st, context.window, nested_tag(context.chain, tag))

ctx_clear_state(st, context, tag) ==
  Adapter_clear_state(st, context.window, nested_tag(context.chain, tag))

-----------------------------------------------------------------------------
(* The trigger functions.  A trigger is a record [kind, count, triggers];  *)
(* triggers holds the subtriggers (for AfterWatermark: early and late,     *)
(* each wrapped in Repeatedly, or NoTrigger for None).                     *)

NoTrigger == [kind |-> "None", count |-> 0, triggers |-> <<>>]

DefaultTrigger == [kind |-> "DefaultTrigger", count |-> 0, triggers |-> <<>>]

AfterCount(count) == [kind |-> "AfterCount", count |-> count, triggers |-> <<>>]

Repeatedly(underlying) == [kind |-> "Repeatedly", count |-> 0, triggers |-> <<underlying>>]

AfterWatermark(early, late) ==
  [kind |-> "AfterWatermark", count |-> 0,
   triggers |-> <<IF early = NoTrigger THEN NoTrigger ELSE Repeatedly(early),
                  IF late = NoTrigger THEN NoTrigger ELSE Repeatedly(late)>>]

AfterFirst(triggers) == [kind |-> "AfterFirst", count |-> 0, triggers |-> triggers]

AfterAll(triggers) == [kind |-> "AfterAll", count |-> 0, triggers |-> triggers]

AfterEach(triggers) == [kind |-> "AfterEach", count |-> 0, triggers |-> triggers]

OrFinally(body_trigger, exit_trigger) ==
  [kind |-> "OrFinally", count |-> 0, triggers |-> <<body_trigger, exit_trigger>>]

LATE_TAG == CombiningValueStateTag("is_late", "any")

COUNT_TAG == CombiningValueStateTag("count", "count")

INDEX_TAG == CombiningValueStateTag("index", "max")

early_of(t) == t.triggers[1]

late_of(t) == t.triggers[2]

is_parallel(t) == t.kind \in {"AfterFirst", "AfterAll", "OrFinally"}

\* variant of combine_op that is any for AfterAll as well
combine_op_any(t, trigger_results) == \E i \in DOMAIN trigger_results : trigger_results[i]

\* ParallelTriggerFn.combine_op: any for AfterFirst and OrFinally, all for AfterAll
combine_op(t, trigger_results) ==
  IF t.kind = "AfterAll"
    THEN \A i \in DOMAIN trigger_results : trigger_results[i]
    ELSE \E i \in DOMAIN trigger_results : trigger_results[i]

\* ParallelTriggerFn._sub_context and AfterEach._sub_context, index from 0
_sub_context(context, index) == NestedContext(context, ToString(index) \o "/")

is_late(t, st, context) ==
  late_of(t) # NoTrigger /\ ctx_get_state(st, context, LATE_TAG)

log(st, op, t, context, fin) ==
  [st EXCEPT !.ev = Append(@, [op |-> op, kind |-> t.kind, window |-> context.window,
                               prefix |-> nested_timer(context.chain, ""), fin |-> fin])]

(* Each operation below does the trigger's own part and hands the rest to *)
(* the subtriggers it delegates to: a delegate is [t, context], the        *)
(* subtrigger and the context it is called with.                           *)

delegate(t, context) == [t |-> t, context |-> context]

\* "for ix, trigger in enumerate(self.triggers): ... self._sub_context(context, ix)"
sub_delegates(t, context) ==
  [i \in DOMAIN t.triggers |-> delegate(t.triggers[i], _sub_context(context, i - 1))]

\* AfterEach: the subtrigger at the stored index, if the index is in range
delegate_at(t, ix, context) ==
  IF ix < Len(t.triggers)
    THEN <<delegate(t.triggers[ix + 1], _sub_context(context, ix))>>
    ELSE <<>>

indexed_delegate(t, st, context) ==
  delegate_at(t, ctx_get_state(st, context, INDEX_TAG), context)

\* AfterWatermark: the late subtrigger once late, else the early one if any
phase_delegate(t, st, context) ==
  IF is_late(t, st, context)
    THEN <<delegate(late_of(t), NestedContext(context, "late"))>>
  ELSE IF early_of(t) # NoTrigger
    THEN <<delegate(early_of(t), NestedContext(context, "early"))>>
  ELSE <<>>

\* the subtriggers on_element, on_merge and should_fire are passed on to
delegates(t, st, context) ==
  CASE t.kind = "AfterWatermark" -> phase_delegate(t, st, context)
    [] t.kind = "Repeatedly" -> <<delegate(t.triggers[1], context)>>
    [] is_parallel(t) -> sub_delegates(t, context)
    [] t.kind = "AfterEach" -> indexed_delegate(t, st, context)
    [] OTHER -> <<>>

RECURSIVE on_element(_, _, _, _, _)
RECURSIVE each_on_element(_, _, _, _)
RECURSIVE on_merge(_, _, _, _, _)
RECURSIVE each_on_merge(_, _, _, _)
RECURSIVE should_fire(_, _, _, _, _)
RECURSIVE on_fire(_, _, _, _, _)
RECURSIVE each_on_fire(_, _, _, _, _)
RECURSIVE fire_one(_, _, _, _, _)
RECURSIVE each_should_fire(_, _, _, _)
RECURSIVE reset(_, _, _, _)
RECURSIVE each_reset(_, _, _)

each_on_element(ds, st, element, window) ==
  IF ds = <<>> THEN st
  ELSE each_on_element(Tail(ds),
                       on_element(ds[1].t, st, element, window, ds[1].context),
                       element, window)

\* variant of DefaultTrigger.on_element that sets no timer
DefaultTrigger_on_element_untimed(st, element, window, context) == st

\* a variant that sets the timer at the start of the window
DefaultTrigger_on_element_at_start(st, element, window, context) ==
  ctx_set_timer(st, context, "", window.start)

\* DefaultTrigger.on_element; AfterWatermark sets the same timer while not late
DefaultTrigger_on_element(st, element, window, context) ==
  ctx_set_timer(st, context, "", window.end)

AfterCount_on_element(st, element, window, context) ==
  ctx_add_state(st, context, COUNT_TAG, 1)

\* AfterWatermark.on_element, its own part: the end-of-window timer while not late
AfterWatermark_on_element(t, st, element, window, context) ==
  IF is_late(t, st, context) THEN st ELSE ctx_set_timer(st, context, "", window.end)

on_element(t, st, element, window, context) ==
  each_on_element(
    delegates(t, st, context),
    CASE t.kind = "DefaultTrigger" -> DefaultTrigger_on_element(st, element, window, context)
      [] t.kind = "AfterWatermark" -> AfterWatermark_on_element(t, st, element, window, context)
      [] t.kind = "AfterCount" -> AfterCount_on_element(st, element, window, context)
      [] OTHER -> st,
    element, window)

each_on_merge(ds, st, to_be_merged, merge_result) ==
  IF ds = <<>> THEN st
  ELSE each_on_merge(Tail(ds),
                     on_merge(ds[1].t, st, to_be_merged, merge_result, ds[1].context),
                     to_be_merged, merge_result)

\* a variant that clears the timer whatever the windows end at
DefaultTrigger_on_merge_clearing(st, to_be_merged, merge_result, context) ==
  ctx_clear_timer(st, context, "")

\* DefaultTrigger.on_merge: "for window in to_be_merged:
\*   if window.end != merge_result.end: context.clear_timer('')"
DefaultTrigger_on_merge(st, to_be_merged, merge_result, context) ==
  IF \E i \in DOMAIN to_be_merged : to_be_merged[i].end # merge_result.end
    THEN ctx_clear_timer(st, context, "")
    ELSE st

\* AfterWatermark.on_merge, its own part: the timer clearing while not late
AfterWatermark_on_merge(t, st, to_be_merged, merge_result, context) ==
  IF is_late(t, st, context) THEN st
  ELSE IF \E i \in DOMAIN to_be_merged : to_be_merged[i].end # merge_result.end
    THEN ctx_clear_timer(st, context, "")
  ELSE st

on_merge(t, st, to_be_merged, merge_result, context) ==
  each_on_merge(
    delegates(t, st, context),
    CASE t.kind = "DefaultTrigger" ->
           DefaultTrigger_on_merge(st, to_be_merged, merge_result, context)
      [] t.kind = "AfterWatermark" ->
           AfterWatermark_on_merge(t, st, to_be_merged, merge_result, context)
      [] OTHER -> st,
    to_be_merged, merge_result)

\* variant of DefaultTrigger.should_fire that does not look at the watermark
DefaultTrigger_should_fire_always(watermark, window) == TRUE

\* a variant that fires only when the watermark has passed the end
DefaultTrigger_should_fire_above(watermark, window) == watermark > window.end

DefaultTrigger_should_fire(watermark, window) == watermark >= window.end

\* variant of AfterCount.should_fire that needs more than count elements
AfterCount_should_fire_above(t, st, context) == ctx_get_state(st, context, COUNT_TAG) > t.count

AfterCount_should_fire(t, st, context) == ctx_get_state(st, context, COUNT_TAG) >= t.count

\* AfterWatermark.should_fire, given the answers of the subtrigger consulted
AfterWatermark_should_fire(t, st, results, watermark, window, context) ==
  IF is_late(t, st, context) THEN results[1]
  ELSE IF watermark >= window.end THEN TRUE
  ELSE IF early_of(t) # NoTrigger THEN results[1]
  ELSE FALSE

\* the trigger's answer, given the answers of the subtriggers it consults
should_fire_given(t, st, results, watermark, window, context) ==
  CASE t.kind = "DefaultTrigger" -> DefaultTrigger_should_fire(watermark, window)
    [] t.kind = "AfterWatermark" ->
         AfterWatermark_should_fire(t, st, results, watermark, window, context)
    [] t.kind = "AfterCount" -> AfterCount_should_fire(t, st, context)
    [] t.kind = "Repeatedly" -> results[1]
    [] is_parallel(t) -> combine_op(t, results)
    [] t.kind = "AfterEach" -> IF results # <<>> THEN results[1] ELSE FALSE

\* the should_fire of each delegate
each_should_fire(ds, st, watermark, window) ==
  [i \in DOMAIN ds |-> should_fire(ds[i].t, st, watermark, window, ds[i].context)]

should_fire(t, st, watermark, window, context) ==
  should_fire_given(t, st,
                    each_should_fire(delegates(t, st, context), st, watermark, window),
                    watermark, window, context)

\* r = [st, finished] with the result f = [st, fin] of one more on_fire
fired(r, f) == [st |-> f.st, finished |-> Append(r.finished, f.fin)]

\* variant of ParallelTriggerFn.on_fire that fires every subtrigger
fire_one_unguarded(d, r, guarded, watermark, window) ==
  fired(r, on_fire(d.t, r.st, watermark, window, d.context))

\* on_fire of one delegate; with guarded (ParallelTriggerFn.on_fire) only if
\* its should_fire is true
fire_one(d, r, guarded, watermark, window) ==
  IF ~guarded \/ should_fire(d.t, r.st, watermark, window, d.context)
    THEN fired(r, on_fire(d.t, r.st, watermark, window, d.context))
    ELSE r

\* on_fire of the delegates in turn; r is [st, finished]
each_on_fire(ds, r, guarded, watermark, window) ==
  IF ds = <<>> THEN r
  ELSE each_on_fire(Tail(ds), fire_one(ds[1], r, guarded, watermark, window),
                    guarded, watermark, window)

\* the subtriggers on_fire is passed on to
fire_delegates(t, st, watermark, window, context) ==
  IF t.kind = "AfterWatermark" /\ ~is_late(t, st, context) /\ watermark >= window.end
    THEN <<>>
    ELSE delegates(t, st, context)

\* variant of DefaultTrigger.on_fire that reports the trigger finished
DefaultTrigger_on_fire_finished(st) == [st |-> st, fin |-> TRUE]

DefaultTrigger_on_fire(st) == [st |-> st, fin |-> FALSE]

AfterCount_on_fire(st) == [st |-> st, fin |-> TRUE]

\* variant of AfterWatermark.on_fire that does not finish at the end of the window
AfterWatermark_on_fire_unfinished(t, st, r, watermark, window, context) ==
  IF is_late(t, st, context) THEN [st |-> r.st, fin |-> r.finished[1]]
  ELSE IF watermark >= window.end
    THEN [st |-> ctx_add_state(st, context, LATE_TAG, TRUE), fin |-> FALSE]
  ELSE [st |-> r.st, fin |-> FALSE]

\* variant of AfterWatermark.on_fire that does not record that the window is late
AfterWatermark_on_fire_not_late(t, st, r, watermark, window, context) ==
  IF is_late(t, st, context) THEN [st |-> r.st, fin |-> r.finished[1]]
  ELSE IF watermark >= window.end THEN [st |-> st, fin |-> late_of(t) = NoTrigger]
  ELSE [st |-> r.st, fin |-> FALSE]

\* AfterWatermark.on_fire, given the result r of the subtrigger it delegated to
AfterWatermark_on_fire(t, st, r, watermark, window, context) ==
  IF is_late(t, st, context) THEN [st |-> r.st, fin |-> r.finished[1]]
  ELSE IF watermark >= window.end
    THEN [st |-> ctx_add_state(st, context, LATE_TAG, TRUE), fin |-> late_of(t) = NoTrigger]
  ELSE [st |-> r.st, fin |-> FALSE]

\* variant of Repeatedly.on_fire that does not reset the underlying trigger
Repeatedly_on_fire_no_reset(t, r, window, context) == [st |-> r.st, fin |-> FALSE]

\* Repeatedly.on_fire, given the result r of the underlying on_fire
Repeatedly_on_fire(t, r, window, context) ==
  [st  |-> IF r.finished[1] THEN reset(t.triggers[1], r.st, window, context) ELSE r.st,
   fin |-> FALSE]

\* ParallelTriggerFn.on_fire, given the results r of the subtriggers that fired
Parallel_on_fire(t, r) == [st |-> r.st, fin |-> combine_op(t, r.finished)]

\* variant of AfterEach.on_fire that moves on whatever the subtrigger returned
advance_index_always(t, ix, r, context) ==
  IF ix >= Len(t.triggers) THEN [st |-> r.st, fin |-> FALSE]
  ELSE [st |-> ctx_add_state(r.st, context, INDEX_TAG, ix + 1),
        fin |-> ix + 1 = Len(t.triggers)]

\* "if self.triggers[ix].on_fire(...): ix += 1; context.add_state(INDEX_TAG, ix)
\*  return ix == len(self.triggers)"
advance_index(t, ix, r, context) ==
  IF ix >= Len(t.triggers) THEN [st |-> r.st, fin |-> FALSE]
  ELSE IF r.finished[1]
    THEN [st |-> ctx_add_state(r.st, context, INDEX_TAG, ix + 1),
          fin |-> ix + 1 = Len(t.triggers)]
  ELSE [st |-> r.st, fin |-> ix = Len(t.triggers)]

\* AfterEach.on_fire, given the result r of the subtrigger at the index
AfterEach_on_fire(t, st, r, context) ==
  advance_index(t, ctx_get_state(st, context, INDEX_TAG), r, context)

\* on_fire, given the results r of the subtriggers it was passed on to
on_fire_given(t, st, r, watermark, window, context) ==
  CASE t.kind = "DefaultTrigger" -> DefaultTrigger_on_fire(st)
    [] t.kind = "AfterWatermark" -> AfterWatermark_on_fire(t, st, r, watermark, window, context)
    [] t.kind = "AfterCount" -> AfterCount_on_fire(st)
    [] t.kind = "Repeatedly" -> Repeatedly_on_fire(t, r, window, context)
    [] is_parallel(t) -> Parallel_on_fire(t, r)
    [] t.kind = "AfterEach" -> AfterEach_on_fire(t, st, r, context)

logged(f, t, context) == [st |-> log(f.st, "on_fire", t, context, f.fin), fin |-> f.fin]

\* returns [st, fin]: the backend after the call and whether the trigger is finished
on_fire(t, st, watermark, window, context) ==
  logged(on_fire_given(t, st,
                       each_on_fire(fire_delegates(t, st, watermark, window, context),
                                    [st |-> st, finished |-> <<>>], is_parallel(t),
                                    watermark, window),
                       watermark, window, context),
         t, context)

each_reset(ds, st, window) ==
  IF ds = <<>> THEN st
  ELSE each_reset(Tail(ds), reset(ds[1].t, st, window, ds[1].context), window)

\* the subtriggers reset is passed on to
reset_delegates(t, context) ==
  CASE t.kind = "AfterWatermark" ->
         (IF early_of(t) # NoTrigger
            THEN <<delegate(early_of(t), NestedContext(context, "early"))>> ELSE <<>>)
         \o (IF late_of(t) # NoTrigger
               THEN <<delegate(late_of(t), NestedContext(context, "late"))>> ELSE <<>>)
    [] t.kind = "Repeatedly" -> <<delegate(t.triggers[1], context)>>
    [] is_parallel(t) \/ t.kind = "AfterEach" -> sub_delegates(t, context)
    [] OTHER -> <<>>

DefaultTrigger_reset(st, context) == ctx_clear_timer(st, context, "")

AfterWatermark_reset(t, st, context) ==
  IF late_of(t) # NoTrigger THEN ctx_clear_state(st, context, LATE_TAG) ELSE st

\* variant of AfterCount.reset that keeps the count
AfterCount_reset_keeping(st, context) == st

AfterCount_reset(st, context) == ctx_clear_state(st, context, COUNT_TAG)

AfterEach_reset(st, context) == ctx_clear_state(st, context, INDEX_TAG)

\* the trigger's own part of reset
reset_own(t, s0, context) ==
  CASE t.kind = "DefaultTrigger" -> DefaultTrigger_reset(s0, context)
    [] t.kind = "AfterWatermark" -> AfterWatermark_reset(t, s0, context)
    [] t.kind = "AfterCount" -> AfterCount_reset(s0, context)
    [] t.kind = "AfterEach" -> AfterEach_reset(s0, context)
    [] OTHER -> s0

reset(t, st, window, context) ==
  each_reset(reset_delegates(t, context),
             reset_own(t, log(st, "reset", t, context, FALSE), context), window)

-----------------------------------------------------------------------------
(* Windows and the window functions.  A window is [start, end]; the        *)
(* GlobalWindow is the one window that covers every timestamp.             *)

IntervalWindow(start, end) == [start |-> start, end |-> end]

GlobalWindow == IntervalWindow(NegInf, 1000)

GlobalWindows == [kind |-> "GlobalWindows", size |-> 0]

FixedWindows(size) == [kind |-> "FixedWindows", size |-> size]

Sessions(gap_size) == [kind |-> "Sessions", size |-> gap_size]

\* WindowFn.assign: the windows of a value with this timestamp
assign(wfn, timestamp) ==
  CASE wfn.kind = "GlobalWindows" -> {GlobalWindow}
    [] wfn.kind = "FixedWindows" ->
         LET start == timestamp - (timestamp % wfn.size)
         IN  {IntervalWindow(start, start + wfn.size)}
    [] wfn.kind = "Sessions" -> {IntervalWindow(timestamp, timestamp + wfn.size)}

\* sorted(windows, key=start); windows of equal start in the order of their end
RECURSIVE sorted_by_start(_)
sorted_by_start(windows) ==
  IF windows = {} THEN <<>>
  ELSE LET w == CHOOSE x \in windows : \A y \in windows :
                  x.start < y.start \/ (x.start = y.start /\ x.end <= y.end)
       IN  <<w>> \o sorted_by_start(windows \ {w})

\* the scan of Sessions.merge over the sorted windows; calls collects the
\* merge_context.merge(to_merge, IntervalWindow(to_merge[0].start, end)) calls
RECURSIVE sessions_scan(_, _, _, _)
sessions_scan(ws, to_merge, end, calls) ==
  LET flush == IF Len(to_merge) > 1
                 THEN Append(calls, [to_be_merged |-> to_merge,
                                     merge_result |-> IntervalWindow(to_merge[1].start, end)])
                 ELSE calls
  IN  IF ws = <<>> THEN flush
      ELSE LET w == ws[1]
           IN  IF to_merge # <<>> /\ end > w.start
                 THEN sessions_scan(Tail(ws), Append(to_merge, w),
                                    IF w.end > end THEN w.end ELSE end, calls)
               ELSE IF to_merge # <<>>
                 THEN sessions_scan(Tail(ws), <<w>>, w.end, flush)
               ELSE sessions_scan(Tail(ws), <<w>>, w.end, calls)

\* window_fn.merge(merge_context): the merge calls it reports, in order
window_fn_merge(wfn, all_windows) ==
  IF wfn.kind = "Sessions"
    THEN sessions_scan(sorted_by_start(all_windows), <<>>, 0, <<>>)
    ELSE <<>>


-----------------------------------------------------------------------------
(* GeneralTriggerDriver.  A windowed value is [value, timestamp, windows]; *)
(* a pane is [window, values, finished].                                   *)

ELEMENTS == ListStateTag("elements")

TOMBSTONE == CombiningValueStateTag("tombstone", "count")

\* all orders in which a dict with these keys may be iterated
Orders(keys) ==
  {o \in [1 .. Cardinality(keys) -> keys] : \A i, j \in DOMAIN o : i # j => o[i] # o[j]}

\* "for wv in windowed_values: for window in wv.windows:
\*    windows_to_elements[window].append(wv.value)"
bucket(windowed_values) ==
  LET ws == UNION {windowed_values[i].windows : i \in DOMAIN windowed_values}
      of(w) == SelectSeq(windowed_values, LAMBDA wv : w \in wv.windows)
  IN  [w \in ws |-> [i \in DOMAIN of(w) |-> of(w)[i].value]]

\* variant of _output that clears only the elements behind a finished pane
output_state_elements_only(st, window, finished, accumulation_mode) ==
  IF finished
    THEN Adapter_add_state(Adapter_clear_state(st, window, ELEMENTS), window, TOMBSTONE, 1)
  ELSE IF accumulation_mode = DISCARDING
    THEN Adapter_clear_state(st, window, ELEMENTS)
  ELSE st

\* variant of _output that keeps the elements of an unfinished pane in both modes
output_state_keeping(st, window, finished, accumulation_mode) ==
  IF finished
    THEN Adapter_add_state(Adapter_clear_state(st, window, NoTag), window, TOMBSTONE, 1)
    ELSE st

\* variant of _output that clears the elements of an unfinished pane in both modes
output_state_clearing(st, window, finished, accumulation_mode) ==
  IF finished
    THEN Adapter_add_state(Adapter_clear_state(st, window, NoTag), window, TOMBSTONE, 1)
    ELSE Adapter_clear_state(st, window, ELEMENTS)

\* variant of _output that leaves no tombstone behind a finished pane
output_state_no_tombstone(st, window, finished, accumulation_mode) ==
  IF finished
    THEN Adapter_clear_state(st, window, NoTag)
  ELSE IF accumulation_mode = DISCARDING
    THEN Adapter_clear_state(st, window, ELEMENTS)
  ELSE st

\* the backend after _output
output_state(st, window, finished, accumulation_mode) ==
  IF finished
    THEN Adapter_add_state(Adapter_clear_state(st, window, NoTag), window, TOMBSTONE, 1)
  ELSE IF accumulation_mode = DISCARDING
    THEN Adapter_clear_state(st, window, ELEMENTS)
  ELSE st

\* _output: returns [st, pane]
output(st, window, finished, accumulation_mode) ==
  [st   |-> output_state(st, window, finished, accumulation_mode),
   pane |-> [window |-> window, values |-> Adapter_get_state(st, window, ELEMENTS),
             finished |-> finished]]

\* the redirects recorded by TriggerMergeContext.merge
redirect(merged_away, to_be_merged, merge_result) ==
  [w \in DOMAIN merged_away \cup (Range(to_be_merged) \ {merge_result}) |->
     IF w \in Range(to_be_merged) \ {merge_result} THEN merge_result ELSE merged_away[w]]

\* a variant that calls on_merge before the window ids are merged
TriggerMergeContext_merge_late(m, to_be_merged, merge_result, trigger_fn) ==
  [st |-> Adapter_merge(on_merge(trigger_fn, m.st, to_be_merged, merge_result,
                                 TriggerContext(merge_result)),
                        to_be_merged, merge_result),
   merged_away |-> redirect(m.merged_away, to_be_merged, merge_result)]

\* TriggerMergeContext.merge; m is [st, merged_away]
TriggerMergeContext_merge(m, to_be_merged, merge_result, trigger_fn) ==
  [st |-> on_merge(trigger_fn, Adapter_merge(m.st, to_be_merged, merge_result),
                   to_be_merged, merge_result, TriggerContext(merge_result)),
   merged_away |-> redirect(m.merged_away, to_be_merged, merge_result)]

\* the calls window_fn.merge makes on the merge context, in order
RECURSIVE merge_calls(_, _, _)
merge_calls(m, calls, trigger_fn) ==
  IF calls = <<>> THEN m
  ELSE merge_calls(TriggerMergeContext_merge(m, calls[1].to_be_merged,
                                             calls[1].merge_result, trigger_fn),
                   Tail(calls), trigger_fn)

\* variant of the bucket rewrite that does not follow merged_away
chase_not(merged_away, window) == window

\* "while window in merged_away: window = merged_away[window]"
RECURSIVE chase(_, _)
chase(merged_away, window) ==
  IF window \in DOMAIN merged_away THEN chase(merged_away, merged_away[window]) ELSE window

\* a variant that assigns the values instead of extending the list by them
extend_replacing(merged, window, values) == Put(merged, window, values)

\* "merged_windows_to_elements[window].extend(values)"
extend(merged, window, values) == Put(merged, window, Get(merged, window, <<>>) \o values)

\* the rewrite of the buckets to the surviving windows, the old buckets
\* visited in the given order
RECURSIVE rewrite(_, _, _, _)
rewrite(windows_to_elements, order, merged_away, merged) ==
  IF order = <<>> THEN merged
  ELSE rewrite(windows_to_elements, Tail(order), merged_away,
               extend(merged, chase(merged_away, order[1]), windows_to_elements[order[1]]))

\* "for value in values: state.add_state(window, ELEMENTS, value);
\*    trigger_fn.on_element(value, window, context)"
RECURSIVE add_elements(_, _, _, _)
add_elements(st, values, window, trigger_fn) ==
  IF values = <<>> THEN st
  ELSE add_elements(
         on_element(trigger_fn, Adapter_add_state(st, window, ELEMENTS, values[1]),
                    values[1], window, TriggerContext(window)),
         Tail(values), window, trigger_fn)

\* "yield self._output(window, finished, state)", o the result of _output
yield(yielded, o) == [st |-> o.st, out |-> Append(yielded, o.pane)]

\* "finished = on_fire(...); yield self._output(window, finished, state)",
\* f the result of on_fire
fire(f, yielded, window, c) == yield(yielded, output(f.st, window, f.fin, c.mode))

\* variant that calls on_fire without asking should_fire
maybe_fire_unasked(st, yielded, watermark, window, c) ==
  IF st.err = ""
    THEN fire(on_fire(c.trigger, st, watermark, window, TriggerContext(window)),
              yielded, window, c)
    ELSE [st |-> st, out |-> yielded]

\* "if should_fire(...): ...": returns [st, out], out with the pane if one is yielded
maybe_fire(st, yielded, watermark, window, c) ==
  IF st.err = "" /\ should_fire(c.trigger, st, watermark, window, TriggerContext(window))
    THEN fire(on_fire(c.trigger, st, watermark, window, TriggerContext(window)),
              yielded, window, c)
    ELSE [st |-> st, out |-> yielded]

\* r = [st, out, added, dropped] after the values were added to window and
\* its trigger was consulted, f the result of maybe_fire
added_to(r, f, values, window) ==
  [r EXCEPT !.st = f.st, !.out = f.out,
            !.added = @ \cup {<<values[i], window>> : i \in DOMAIN values}]

\* a variant that adds the values without a look at the tombstone
add_to_window_unchecked(r, values, window, c) ==
  added_to(r, maybe_fire(add_elements(r.st, values, window, c.trigger),
                         r.out, NegInf, window, c),
           values, window)

\* one round of the element-adding loop
add_to_window(r, values, window, c) ==
  IF Adapter_get_state(r.st, window, TOMBSTONE) > 0
    THEN [r EXCEPT !.dropped = @ \cup Range(values)]
    ELSE added_to(r, maybe_fire(add_elements(r.st, values, window, c.trigger),
                                r.out, NegInf, window, c),
                  values, window)

\* the element-adding loop over the buckets in the given order
RECURSIVE element_loop(_, _, _, _)
element_loop(r, windows_to_elements, order, c) ==
  IF order = <<>> \/ r.st.err # "" THEN r
  ELSE element_loop(add_to_window(r, windows_to_elements[order[1]], order[1], c),
                    windows_to_elements, Tail(order), c)

\* the merging step of process_elements: returns [st, merged_away]
handle_merging(st, windows_to_elements, c) ==
  IF known_windows(st) \cup DOMAIN windows_to_elements # known_windows(st)
    THEN merge_calls([st |-> st, merged_away |-> EmptyMap],
                     window_fn_merge(c.wfn, known_windows(st) \cup DOMAIN windows_to_elements),
                     c.trigger)
    ELSE [st |-> st, merged_away |-> EmptyMap]

\* m = [st, merged_away] with the buckets rewritten to the surviving windows
rewritten(m, windows_to_elements, order1) ==
  [st |-> m.st, merged_away |-> m.merged_away,
   buckets |-> rewrite(windows_to_elements, order1, m.merged_away, EmptyMap)]

\* process_elements up to the element adding, the old buckets visited in
\* order1: returns [st, merged_away, buckets]
process_elements_merging(raw, windowed_values, c, order1) ==
  rewritten(handle_merging(Adapter_init(raw), bucket(windowed_values), c),
            bucket(windowed_values), order1)

\* r = [st, out, added, dropped] of the element adding, with the redirects
with_redirects(r, merged_away) ==
  [st |-> r.st, out |-> r.out, added |-> r.added, dropped |-> r.dropped,
   merged_away |-> merged_away]

\* process_elements from the element adding on, the buckets visited in order2
process_elements_adding(m, c, order2) ==
  with_redirects(element_loop([st |-> m.st, out |-> <<>>, added |-> {}, dropped |-> {}],
                              m.buckets, order2, c),
                 m.merged_away)

\* process_timer once get_window has returned window
process_timer(raw, window, timestamp, c) ==
  IF Adapter_get_state(Adapter_init(raw), window, TOMBSTONE) > 0
    THEN [st |-> Adapter_init(raw), out |-> <<>>]
  ELSE IF window \in known_windows(Adapter_init(raw))
    THEN maybe_fire(Adapter_init(raw), <<>>, timestamp, window, c)
  ELSE [st |-> Adapter_init(raw), out |-> <<>>]

-----------------------------------------------------------------------------
(* DefaultGlobalBatchTriggerDriver.                                        *)

\* the values of windowed_values in iteration order, as both the list and the
\* UnwindowedValues iterable give them
unwindowed(items) == [i \in DOMAIN items |-> items[i].value]

\* variant of process_elements that yields only the values windowed into the
\* global window, and nothing at all for an empty input
Batch_process_elements_by_window(windowed_values, raw) ==
  IF windowed_values.items = <<>> THEN <<>>
  ELSE <<[window |-> GlobalWindow,
          values |-> unwindowed(SelectSeq(windowed_values.items,
                                          LAMBDA wv : GlobalWindow \in wv.windows)),
          lazy   |-> ~windowed_values.is_list]>>

\* process_elements: the panes yielded.  windowed_values is a list (is_list) or
\* some other iterable; the state argument is not used
Batch_process_elements(windowed_values, raw) ==
  <<[window |-> GlobalWindow,
     values |-> unwindowed(windowed_values.items),
     lazy   |-> ~windowed_values.is_list]>>

\* variant of process_timer that returns without raising
Batch_process_timer_quiet(timer_id, timestamp, unused_tag, raw) == ""

\* process_timer: the exception it raises
Batch_process_timer(timer_id, timestamp, unused_tag, raw) == "TypeError"

-----------------------------------------------------------------------------
(* The state machine: a backend, a driver built for cfg, and the calls     *)
(* made on the driver.                                                     *)

RawState == [timers |-> timers, state |-> state, global_state |-> global_state]

NoCall ==
  [op |-> "none", err |-> "", input |-> <<>>, timer_id |-> 0, timestamp |-> 0,
   resolved |-> {}, tombstoned |-> FALSE, pending |-> FALSE, merged_away |-> EmptyMap,
   dropped |-> {}, ev |-> <<>>, before |-> <<>>]

\* the panes of a call as the history keeps them: with the call that yielded
\* them, whether its watermark had reached the end of the window, and the
\* elements delivered before and up to the call
Recorded(yielded, op, watermark, upto) ==
  [i \in DOMAIN yielded |->
     [window |-> yielded[i].window, values |-> yielded[i].values,
      finished |-> yielded[i].finished, op |-> op,
      at_end |-> watermark >= yielded[i].window.end,
      from |-> nelems, upto |-> upto]]

InitBackend ==
  /\ timers = EmptyMap
  /\ state = EmptyMap
  /\ global_state = EmptyMap
  /\ out = <<>>
  /\ last = NoCall
  /\ panes = <<>>
  /\ written = {}
  /\ nelems = 0
  /\ ntimers = 0
  /\ counter = <<>>
  /\ hist = <<>>

\* the windowed values of one call: values nelems+1 .. nelems+n, each with
\* the windows window_fn.assign gives its timestamp
Inputs(n) ==
  {[i \in 1 .. n |-> [value |-> nelems + i, timestamp |-> ts[i],
                      windows |-> assign(cfg.wfn, ts[i])]] : ts \in [1 .. n -> Timestamps]}

\* the effect of a process_elements call that returned r
ElementsProcessed(r, windowed_values) ==
  /\ timers' = r.st.timers
  /\ state' = r.st.state
  /\ global_state' = r.st.global_state
  /\ out' = r.out
  /\ last' = [NoCall EXCEPT !.op = "process_elements", !.err = r.st.err,
                !.input = windowed_values, !.merged_away = r.merged_away,
                !.dropped = r.dropped, !.ev = r.st.ev]
  /\ panes' = panes \o Recorded(r.out, "process_elements", NegInf,
                                 nelems + Len(windowed_values))
  /\ written' = written \cup r.added
  /\ nelems' = nelems + Len(windowed_values)
  /\ UNCHANGED <<cfg, ntimers, counter, hist>>

\* the element adding, its dict iterated in any order
AddElements(m, windowed_values) ==
  \E order2 \in Orders(DOMAIN m.buckets) :
    ElementsProcessed(process_elements_adding(m, cfg, order2), windowed_values)

ProcessElements ==
  \E n \in BatchSizes :
    /\ nelems + n <= MaxElems
    /\ \E windowed_values \in Inputs(n) :
       \E order1 \in Orders(DOMAIN bucket(windowed_values)) :
         AddElements(process_elements_merging(RawState, windowed_values, cfg, order1),
                     windowed_values)

\* the ids the adapter has issued and may still be asked about
IssuedIds == 1 .. (IF AllIds(global_state) = {} THEN 0 ELSE MaxOf(AllIds(global_state)))

\* the effect of a process_timer call that returned r
TimerProcessed(r, call, window) ==
  /\ timers' = r.st.timers
  /\ state' = r.st.state
  /\ global_state' = r.st.global_state
  /\ out' = r.out
  /\ panes' = panes \o Recorded(r.out, "process_timer", call.timestamp, nelems)
  /\ last' = [call EXCEPT !.err = r.st.err, !.ev = r.st.ev, !.resolved = {window},
                !.tombstoned =
                  Adapter_get_state(Adapter_init(RawState), window, TOMBSTONE) > 0]

\* get_window raises ValueError, which process_timer does not catch
TimerFailed(call) ==
  /\ last' = [call EXCEPT !.err = "ValueError", !.before = RawState]
  /\ out' = <<>>
  /\ UNCHANGED <<timers, state, global_state, panes>>

TimerCall(timer_id, timestamp) ==
  [NoCall EXCEPT !.op = "process_timer", !.timer_id = timer_id, !.timestamp = timestamp,
                 !.pending = \E k \in DOMAIN timers : k[1] = timer_id]

ProcessTimer ==
  /\ ntimers < MaxTimerCalls
  /\ ntimers' = ntimers + 1
  /\ UNCHANGED <<cfg, written, nelems, counter, hist>>
  /\ \E timer_id \in IssuedIds, timestamp \in TimerStamps :
       IF windows_of(Adapter_init(RawState), timer_id) = {}
         THEN TimerFailed(TimerCall(timer_id, timestamp))
         ELSE \E window \in windows_of(Adapter_init(RawState), timer_id) :
                TimerProcessed(process_timer(RawState, window, timestamp, cfg),
                               TimerCall(timer_id, timestamp), window)

Next == ProcessElements \/ ProcessTimer

Cfg(wfn, trigger, mode) == [wfn |-> wfn, trigger |-> trigger, mode |-> mode]

\* the trigger functions the model is run with
Triggers ==
  {DefaultTrigger,
   AfterWatermark(NoTrigger, NoTrigger),
   AfterCount(2),
   Repeatedly(AfterCount(2)),
   Repeatedly(AfterWatermark(NoTrigger, NoTrigger)),
   AfterFirst(<<AfterCount(2), AfterWatermark(NoTrigger, NoTrigger)>>),
   AfterEach(<<AfterCount(1), AfterCount(2)>>)}

WindowFns == {FixedWindows(2), Sessions(2)}

Modes == {DISCARDING, ACCUMULATING}

Configs == {Cfg(wfn, trigger, mode) : wfn \in WindowFns, trigger \in Triggers, mode \in Modes}

Init == cfg \in Configs /\ InitBackend

Spec == Init /\ [][Next]_vars

-----------------------------------------------------------------------------
(* The state machine of the default-global-batch driver.                   *)

\* Windowing.is_default
is_default(windowing) == windowing = Cfg(GlobalWindows, DefaultTrigger, DISCARDING)

DefaultGlobalBatchTriggerDriver == "DefaultGlobalBatchTriggerDriver"
GeneralTriggerDriver == "GeneralTriggerDriver"

create_trigger_driver(windowing, is_batch) ==
  IF is_default(windowing) /\ is_batch
    THEN DefaultGlobalBatchTriggerDriver
    ELSE GeneralTriggerDriver

MaxBatchLen == 2

BatchValues == 1 .. 3

\* the windows an element of a batch call may carry
BatchWindows == {{GlobalWindow}, {IntervalWindow(0, 2), IntervalWindow(2, 4)}}

BatchItems == [value : BatchValues, timestamp : {0}, windows : BatchWindows]

BatchInputs ==
  [is_list : BOOLEAN,
   items   : UNION {[1 .. n -> BatchItems] : n \in 0 .. MaxBatchLen}]

\* the backends the batch driver is handed: an empty one and a used one
BatchBackends ==
  {[timers |-> EmptyMap, state |-> EmptyMap, global_state |-> EmptyMap],
   [timers |-> (<<1, "">> :> 2),
    state |-> (<<1, "elements">> :> <<7>>),
    global_state |-> (IntervalWindow(0, 2) :> <<1>>)]}

InitBatch ==
  /\ cfg = Cfg(GlobalWindows, DefaultTrigger, DISCARDING)
  /\ create_trigger_driver(cfg, TRUE) = DefaultGlobalBatchTriggerDriver
  /\ \E raw \in BatchBackends :
       /\ timers = raw.timers
       /\ state = raw.state
       /\ global_state = raw.global_state
  /\ out = <<>>
  /\ last = NoCall
  /\ panes = <<>>
  /\ written = {}
  /\ nelems = 0
  /\ ntimers = 0
  /\ counter = <<>>
  /\ hist = <<>>

BatchProcessElements ==
  /\ \E windowed_values \in BatchInputs :
       /\ out' = Batch_process_elements(windowed_values, RawState)
       /\ last' = [NoCall EXCEPT !.op = "process_elements",
                                 !.input = windowed_values.items,
                                 !.before = RawState]
  /\ UNCHANGED <<cfg, timers, state, global_state, panes, written, nelems, ntimers,
                 counter, hist>>

BatchProcessTimer ==
  /\ \E timer_id \in 0 .. 1, timestamp \in TimerStamps, unused_tag \in {"", "0/"} :
       /\ last' = [NoCall EXCEPT !.op = "process_timer",
                                 !.err = Batch_process_timer(timer_id, timestamp,
                                                             unused_tag, RawState),
                                 !.timer_id = timer_id,
                                 !.timestamp = timestamp,
                                 !.before = RawState]
       /\ out' = <<>>
  /\ UNCHANGED <<cfg, timers, state, global_state, panes, written, nelems, ntimers,
                 counter, hist>>

NextBatch == BatchProcessElements \/ BatchProcessTimer

SpecBatch == InitBatch /\ [][NextBatch]_vars

-----------------------------------------------------------------------------
(* The state machine of a MergeableStateAdapter over an in-memory backend, *)
(* called directly.  hist is                                               *)
(*   owner     : added value -> <<window, tag name>> it now belongs to;    *)
(*               a merge hands the values of the sources to the result,    *)
(*               a clear forgets them                                      *)
(*   allocated : the ids that entered the id map, in order                 *)
(*   nops      : the calls made that may change the adapter, of which at   *)
(*               most MaxElems add a value                                 *)

\* calls that may change the adapter, over a behaviour
MaxOps == 4

WINDOW_IDS == ValueStateTag("window_ids")

AdapterWindows == {IntervalWindow(0, 2), IntervalWindow(1, 3), IntervalWindow(0, 3)}

AdapterTags == {ELEMENTS, COUNT_TAG, WINDOW_IDS}

\* the adapter in use: built over the backend, with the counter it has reached
Adapter(raw, c) == [Adapter_init(raw) EXCEPT !.counter = c]

NoApiCall ==
  [op |-> "none", err |-> "", context |-> TriggerContext(IntervalWindow(0, 0)),
   tag |-> NoTag, value |-> 0, timestamp |-> 0, to_be_merged |-> <<>>,
   merge_result |-> IntervalWindow(0, 0), trigger |-> NoTrigger, result |-> <<>>,
   window_ids |-> EmptyMap, counter |-> <<>>, before |-> <<>>]

NoHist == [owner |-> EmptyMap, allocated |-> <<>>, nops |-> 0]

InitAdapter ==
  /\ cfg = Cfg(Sessions(2), DefaultTrigger, DISCARDING)
  /\ timers = EmptyMap
  /\ state = EmptyMap
  /\ global_state = EmptyMap
  /\ out = <<>>
  /\ last = NoApiCall
  /\ panes = <<>>
  /\ written = {}
  /\ nelems = 0
  /\ ntimers = 0
  /\ counter = <<>>
  /\ hist = NoHist

\* the ids that entered the id map in a step to the map window_ids
entered(window_ids) ==
  IF AllIds(window_ids) \subseteq AllIds(global_state) THEN <<>>
  ELSE <<CHOOSE id \in AllIds(window_ids) \ AllIds(global_state) : TRUE>>

\* the effect of a call on the adapter that left it as st
AdapterCalled(st, call, owner, nops) ==
  /\ timers' = st.timers
  /\ state' = st.state
  /\ global_state' = st.global_state
  /\ counter' = st.counter
  /\ last' = [call EXCEPT !.err = st.err, !.window_ids = st.window_ids,
                          !.counter = counter, !.before = RawState]
  /\ hist' = [owner |-> owner, allocated |-> hist.allocated \o entered(st.global_state),
              nops |-> nops]
  /\ UNCHANGED <<cfg, out, panes, written, ntimers>>

\* MergeableStateAdapter(raw_state)
NewAdapter ==
  /\ hist.nops < MaxOps
  /\ AdapterCalled(Adapter_init(RawState), [NoApiCall EXCEPT !.op = "init"],
                   hist.owner, hist.nops + 1)
  /\ UNCHANGED nelems

\* state.add_state(window, tag, value) with a list or combining tag
AddState ==
  /\ hist.nops < MaxOps
  /\ nelems < MaxElems
  /\ nelems' = nelems + 1
  /\ \E window \in AdapterWindows, tag \in {ELEMENTS, COUNT_TAG} :
       AdapterCalled(Adapter_add_state(Adapter(RawState, counter), window, tag, nelems + 1),
                     [NoApiCall EXCEPT !.op = "add_state",
                                       !.context = TriggerContext(window),
                                       !.tag = tag, !.value = nelems + 1],
                     Put(hist.owner, nelems + 1, <<window, tag.name>>),
                     hist.nops + 1)

\* state.add_state(window, tag, value) with a value tag
AddValueState ==
  /\ UNCHANGED nelems
  /\ \E window \in AdapterWindows :
       AdapterCalled(Adapter_add_state(Adapter(RawState, counter), window, WINDOW_IDS,
                                       nelems + 1),
                     [NoApiCall EXCEPT !.op = "add_state",
                                       !.context = TriggerContext(window),
                                       !.tag = WINDOW_IDS, !.value = nelems + 1],
                     hist.owner, hist.nops)

\* state.get_state(window, tag)
GetState ==
  /\ UNCHANGED nelems
  /\ \E window \in AdapterWindows, tag \in AdapterTags :
       IF Adapter_get_state_fails(Adapter(RawState, counter), window, tag)
         THEN AdapterCalled([Adapter(RawState, counter) EXCEPT !.err = "ValueError"],
                            [NoApiCall EXCEPT !.op = "get_state",
                                              !.context = TriggerContext(window),
                                              !.tag = tag],
                            hist.owner, hist.nops)
         ELSE AdapterCalled(Adapter(RawState, counter),
                            [NoApiCall EXCEPT !.op = "get_state",
                                              !.context = TriggerContext(window),
                                              !.tag = tag,
                                              !.result = <<Adapter_get_state(
                                                 Adapter(RawState, counter), window, tag)>>],
                            hist.owner, hist.nops)

\* the windows and tags cleared, tag None included
Clears ==
  {<<IntervalWindow(0, 2), NoTag>>, <<IntervalWindow(0, 3), NoTag>>,
   <<IntervalWindow(0, 3), COUNT_TAG>>}

\* state.clear_state(window, tag)
ClearState ==
  /\ hist.nops < MaxOps
  /\ UNCHANGED nelems
  /\ \E window \in AdapterWindows, tag \in {COUNT_TAG, NoTag} :
       /\ <<window, tag>> \in Clears
       /\ AdapterCalled(Adapter_clear_state(Adapter(RawState, counter), window, tag),
                     [NoApiCall EXCEPT !.op = "clear_state",
                                       !.context = TriggerContext(window), !.tag = tag],
                     Drop(hist.owner,
                          {v \in DOMAIN hist.owner :
                             /\ hist.owner[v][1] = window
                             /\ tag # NoTag => hist.owner[v][2] = tag.name}),
                     hist.nops + 1)

\* state.set_timer(window, '', TimeDomain.WATERMARK, window.end)
SetTimer ==
  /\ hist.nops < MaxOps
  /\ UNCHANGED nelems
  /\ \E window \in {IntervalWindow(0, 3)} :
       AdapterCalled(Adapter_set_timer(Adapter(RawState, counter), window, "", window.end),
                     [NoApiCall EXCEPT !.op = "set_timer",
                                       !.context = TriggerContext(window),
                                       !.timestamp = window.end],
                     hist.owner, hist.nops + 1)

\* the lists of windows a merge is given: the result not among them, or
\* among them, last or first
MergeLists ==
  {<<IntervalWindow(0, 2), IntervalWindow(1, 3)>>,
   <<IntervalWindow(0, 2), IntervalWindow(0, 3)>>,
   <<IntervalWindow(0, 3), IntervalWindow(1, 3)>>}

\* state.merge(to_be_merged, merge_result), merge_result spanning the windows
Merge ==
  /\ hist.nops < MaxOps
  /\ UNCHANGED nelems
  /\ \E to_be_merged \in MergeLists :
       AdapterCalled(Adapter_merge(Adapter(RawState, counter), to_be_merged,
                                   IntervalWindow(0, 3)),
                     [NoApiCall EXCEPT !.op = "merge", !.to_be_merged = to_be_merged,
                                       !.merge_result = IntervalWindow(0, 3)],
                     [v \in DOMAIN hist.owner |->
                        IF hist.owner[v][1] \in Range(to_be_merged)
                          THEN <<IntervalWindow(0, 3), hist.owner[v][2]>>
                          ELSE hist.owner[v]],
                     hist.nops + 1)

NextAdapter ==
  \/ NewAdapter
  \/ AddState
  \/ AddValueState
  \/ GetState
  \/ ClearState
  \/ SetTimer
  \/ Merge

SpecAdapter == InitAdapter /\ [][NextAdapter]_vars

-----------------------------------------------------------------------------
(* The state machine of the contexts a trigger is handed over a merge      *)
(* adapter: state.at(window), bare and inside NestedContext("a/") and      *)
(* NestedContext("b/"), and the merge of a window into itself.             *)

\* calls that may change the adapter, over a behaviour
MaxCtxOps == 3

Nested(window) == NestedContext(NestedContext(TriggerContext(window), "a/"), "b/")

\* the contexts written through
WriteContexts ==
  {TriggerContext(IntervalWindow(0, 2)), TriggerContext(IntervalWindow(0, 3)),
   Nested(IntervalWindow(0, 3))}

\* the contexts cleared through
ClearContexts == {TriggerContext(IntervalWindow(0, 3)), Nested(IntervalWindow(0, 3))}

\* the triggers whose on_merge accompanies a merge
MergeTriggers ==
  {DefaultTrigger,
   AfterWatermark(AfterCount(1), NoTrigger),
   AfterFirst(<<AfterCount(2), DefaultTrigger>>)}

\* context.add_state(tag, value)
CtxAddState ==
  /\ hist.nops < MaxCtxOps
  /\ nelems' = nelems + 1
  /\ \E context \in WriteContexts, tag \in {ELEMENTS, COUNT_TAG} :
       AdapterCalled(ctx_add_state(Adapter(RawState, counter), context, tag, nelems + 1),
                     [NoApiCall EXCEPT !.op = "add_state", !.context = context,
                                       !.tag = tag, !.value = nelems + 1],
                     hist.owner, hist.nops + 1)

\* context.get_state(tag)
CtxGetState ==
  /\ UNCHANGED nelems
  /\ \E context \in WriteContexts, tag \in {ELEMENTS, COUNT_TAG} :
       AdapterCalled(Adapter(RawState, counter),
                     [NoApiCall EXCEPT !.op = "get_state", !.context = context,
                                       !.tag = tag,
                                       !.result = <<ctx_get_state(
                                          Adapter(RawState, counter), context, tag)>>],
                     hist.owner, hist.nops)

\* context.clear_state(tag)
CtxClearState ==
  /\ hist.nops < MaxCtxOps
  /\ UNCHANGED nelems
  /\ \E context \in ClearContexts, tag \in {ELEMENTS, COUNT_TAG} :
       AdapterCalled(ctx_clear_state(Adapter(RawState, counter), context, tag),
                     [NoApiCall EXCEPT !.op = "clear_state", !.context = context,
                                       !.tag = tag],
                     hist.owner, hist.nops + 1)

\* context.set_timer('', TimeDomain.WATERMARK, window.end)
CtxSetTimer ==
  /\ hist.nops < MaxCtxOps
  /\ UNCHANGED nelems
  /\ \E context \in WriteContexts :
       AdapterCalled(ctx_set_timer(Adapter(RawState, counter), context, "",
                                   context.window.end),
                     [NoApiCall EXCEPT !.op = "set_timer", !.context = context,
                                       !.timestamp = context.window.end],
                     hist.owner, hist.nops + 1)

\* context.clear_timer('', TimeDomain.WATERMARK)
CtxClearTimer ==
  /\ hist.nops < MaxCtxOps
  /\ UNCHANGED nelems
  /\ \E context \in ClearContexts :
       AdapterCalled(ctx_clear_timer(Adapter(RawState, counter), context, ""),
                     [NoApiCall EXCEPT !.op = "clear_timer", !.context = context],
                     hist.owner, hist.nops + 1)

\* state.merge([IntervalWindow(0, 2)], IntervalWindow(0, 3))
CtxMerge ==
  /\ hist.nops < MaxCtxOps
  /\ UNCHANGED nelems
  /\ AdapterCalled(Adapter_merge(Adapter(RawState, counter), <<IntervalWindow(0, 2)>>,
                                 IntervalWindow(0, 3)),
                   [NoApiCall EXCEPT !.op = "merge",
                                     !.to_be_merged = <<IntervalWindow(0, 2)>>,
                                     !.merge_result = IntervalWindow(0, 3)],
                   hist.owner, hist.nops + 1)

\* TriggerMergeContext.merge([window], window): state.merge and then
\* trigger_fn.on_merge on state.at(window)
MergeSingleton ==
  /\ UNCHANGED nelems
  /\ \E window \in {IntervalWindow(0, 2), IntervalWindow(0, 3)}, trigger \in MergeTriggers :
       AdapterCalled(on_merge(trigger,
                              Adapter_merge(Adapter(RawState, counter), <<window>>, window),
                              <<window>>, window, TriggerContext(window)),
                     [NoApiCall EXCEPT !.op = "merge_singleton",
                                       !.to_be_merged = <<window>>,
                                       !.merge_result = window, !.trigger = trigger],
                     hist.owner, hist.nops)

NextContext ==
  \/ CtxAddState
  \/ CtxGetState
  \/ CtxClearState
  \/ CtxSetTimer
  \/ CtxClearTimer
  \/ CtxMerge
  \/ MergeSingleton

SpecContext == InitAdapter /\ [][NextContext]_vars

-----------------------------------------------------------------------------
(* The state machines of an InMemoryUnmergedState called directly: one of  *)
(* its timer table, one of its state table.  hist.pending is, for every    *)
(* (window, tag), the timestamp of its last set_timer, unless a            *)
(* clear_timer or a get_and_clear_timers that returned it came after.      *)

\* the backend in use
Backend ==
  [timers |-> timers, state |-> state, global_state |-> global_state, err |-> ""]

BackendWindows == {IntervalWindow(0, 2), IntervalWindow(0, 3)}

TimerTags == {"", "early/"}

Watermarks == {1, 2, 3, PosInf}

NoRawCall ==
  [op |-> "none", err |-> "", window |-> IntervalWindow(0, 0), tag |-> NoTag,
   timer |-> "", timestamp |-> 0, watermark |-> 0, value |-> 0, result |-> <<>>,
   expired |-> <<>>, repeated |-> FALSE, pending |-> EmptyMap,
   before |-> <<>>]

InitRaw ==
  /\ cfg = Cfg(Sessions(2), DefaultTrigger, DISCARDING)
  /\ timers = EmptyMap
  /\ state = EmptyMap
  /\ global_state = EmptyMap
  /\ out = <<>>
  /\ last = NoRawCall
  /\ panes = <<>>
  /\ written = {}
  /\ nelems = 0
  /\ ntimers = 0
  /\ counter = <<>>
  /\ hist = [pending |-> EmptyMap]

\* the effect of a call on the backend that left it as st
RawCalled(st, call, pending) ==
  /\ timers' = st.timers
  /\ state' = st.state
  /\ last' = [call EXCEPT !.err = st.err, !.pending = hist.pending, !.before = RawState]
  /\ hist' = [pending |-> pending]
  /\ UNCHANGED <<cfg, global_state, out, panes, written, counter>>

\* set_timer(window, tag, timestamp)
RawSetTimer ==
  /\ ntimers < MaxTimerCalls
  /\ ntimers' = ntimers + 1
  /\ UNCHANGED nelems
  /\ \E window \in BackendWindows, tag \in TimerTags, timestamp \in TimerStamps :
       RawCalled(Raw_set_timer(Backend, window, tag, timestamp),
                 [NoRawCall EXCEPT !.op = "set_timer", !.window = window, !.timer = tag,
                                   !.timestamp = timestamp],
                 Put(hist.pending, <<window, tag>>, timestamp))

\* clear_timer(window, tag)
RawClearTimer ==
  /\ UNCHANGED <<nelems, ntimers>>
  /\ \E window \in BackendWindows, tag \in TimerTags :
       RawCalled(Raw_clear_timer(Backend, window, tag),
                 [NoRawCall EXCEPT !.op = "clear_timer", !.window = window, !.timer = tag],
                 Drop(hist.pending, {<<window, tag>>}))

\* get_and_clear_timers(watermark)
GetAndClearTimers ==
  /\ UNCHANGED <<nelems, ntimers>>
  /\ \E watermark \in Watermarks :
       \E expired \in Orders(expired_timers(Backend, watermark)) :
         RawCalled(Raw_get_and_clear_timers(Backend, watermark),
                   [NoRawCall EXCEPT !.op = "get_and_clear_timers",
                                     !.watermark = watermark, !.expired = expired,
                                     !.repeated = (last.op = "get_and_clear_timers" /\
                                                   last.watermark = watermark)],
                   Drop(hist.pending,
                        {<<expired[i][1], expired[i][2][1]>> : i \in DOMAIN expired}))

NextTimers ==
  \/ RawSetTimer
  \/ RawClearTimer
  \/ GetAndClearTimers

SpecTimers == InitRaw /\ [][NextTimers]_vars

\* add_state(window, tag, value)
RawAddState ==
  /\ nelems < MaxElems
  /\ nelems' = nelems + 1
  /\ UNCHANGED ntimers
  /\ \E window \in BackendWindows, tag \in AdapterTags :
       RawCalled(Raw_add_state(Backend, window, tag, nelems + 1),
                 [NoRawCall EXCEPT !.op = "add_state", !.window = window, !.tag = tag,
                                   !.value = nelems + 1],
                 hist.pending)

\* get_state(window, tag)
RawGetState ==
  /\ UNCHANGED <<nelems, ntimers>>
  /\ \E window \in BackendWindows, tag \in AdapterTags :
       RawCalled(Backend,
                 [NoRawCall EXCEPT !.op = "get_state", !.window = window, !.tag = tag,
                                   !.result = <<Raw_get_state(Backend, window, tag)>>],
                 hist.pending)

\* clear_state(window, tag), tag None included
RawClearState ==
  /\ UNCHANGED <<nelems, ntimers>>
  /\ \E window \in BackendWindows, tag \in AdapterTags \cup {NoTag} :
       RawCalled(Raw_clear_state(Backend, window, tag),
                 [NoRawCall EXCEPT !.op = "clear_state", !.window = window, !.tag = tag],
                 hist.pending)

NextState ==
  \/ RawAddState
  \/ RawGetState
  \/ RawClearState

SpecState == InitRaw /\ [][NextState]_vars

-----------------------------------------------------------------------------
(* Properties of the general driver, stated of Spec.                      *)

\* the panes the last call yielded are the last Len(out) entries of panes
Earlier == 1 .. (Len(panes) - Len(out))

\* window a lies within window b
within(a, b) == b.start <= a.start /\ a.end <= b.end

\* C1 -- finished is final.  Once a pane with finished = true has been yielded
\* for a window, no later process_elements or process_timer call yields a pane
\* for that window: no element delivered after that pane is written to the
\* window's state (it is dropped without an error), and a timer that resolves
\* to the window yields nothing.
C1_FinishedIsFinal ==
  \A i \in DOMAIN panes : panes[i].finished =>
    /\ \A j \in DOMAIN panes : j > i => panes[j].window # panes[i].window
    /\ \A e \in written : e[2] = panes[i].window => e[1] <= panes[i].upto
    /\ (i \in Earlier /\ last.resolved = {panes[i].window}) =>
         (out = <<>> /\ last.err = "")
    /\ (i \in Earlier /\ last.op = "process_elements") =>
         \A k \in DOMAIN last.input : \A w \in last.input[k].windows :
           chase(last.merged_away, w) = panes[i].window
             => (last.input[k].value \in last.dropped /\ last.err = "")

\* C1 witness: a window with a finished pane was later delivered an element,
\* which was dropped
C1_Witness ==
  /\ last.op = "process_elements"
  /\ \E i \in Earlier : \E k \in DOMAIN last.input :
       /\ panes[i].finished
       /\ panes[i].window \in last.input[k].windows
       /\ last.input[k].value \in last.dropped

\* C2 -- every pane a process_elements call yields names a window that
\* survived the merges of that call: never a window the call merged away into
\* another one.
C2_PanesNameSurvivors ==
  last.op = "process_elements" =>
    \A i \in DOMAIN out :
      /\ out[i].window \notin DOMAIN last.merged_away
      /\ out[i].window \in known_windows(Adapter_init(RawState))

\* C2 witness: a call merged windows away and yielded a pane for the survivor
C2_Witness ==
  /\ last.op = "process_elements"
  /\ DOMAIN last.merged_away # {}
  /\ \E i \in DOMAIN out : out[i].window \in Range(last.merged_away)

\* the elements a window's ELEMENTS state holds now
stored(window) == Range(Adapter_get_state(Adapter_init(RawState), window, ELEMENTS))

\* the elements any ELEMENTS cell of the backend holds now
AllStored == UNION {Range(state[k]) : k \in {k \in DOMAIN state : k[2] = ELEMENTS.name}}

\* the elements the panes yielded for a window carry
paned(window) == UNION {Range(panes[i].values) : i \in {i \in DOMAIN panes : panes[i].window = window}}

AllPaned == UNION {Range(panes[i].values) : i \in DOMAIN panes}

\* the elements written to a window's ELEMENTS state
written_to(window) == {e[1] : e \in {e \in written : e[2] = window}}

\* no element occurs twice in the panes yielded so far
NoElementTwice ==
  \A i, j \in DOMAIN panes : \A k \in DOMAIN panes[i].values : \A l \in DOMAIN panes[j].values :
    (i # j \/ k # l) => panes[i].values[k] # panes[j].values[l]

SeenWindows == {e[2] : e \in written} \cup {panes[i].window : i \in DOMAIN panes}

\* C3 as stated -- in DISCARDING mode the panes yielded for a window are
\* pairwise disjoint, and once no ELEMENTS state holds anything back they add
\* up to the elements written to that window's ELEMENTS state.
C3_PanesOfWindowAreItsWrites ==
  cfg.mode = DISCARDING =>
    /\ NoElementTwice
    /\ AllStored = {} => \A w \in SeenWindows : paned(w) = written_to(w)

\* C3 amended -- in DISCARDING mode the panes of a window are pairwise
\* disjoint (here, where every element is assigned one window, no element
\* occurs in two panes at all); every element written to ELEMENTS state is in
\* exactly one pane or still stored; a pane carries only elements written to
\* its window or to a window lying within it (one merged into it); under a
\* non-merging window function the panes of a window and what it still stores
\* are exactly what was written to it.
C3_DiscardingPartition ==
  cfg.mode = DISCARDING =>
    /\ NoElementTwice
    /\ {e[1] : e \in written} = AllPaned \cup AllStored
    /\ AllPaned \cap AllStored = {}
    /\ \A i \in DOMAIN panes : \A v \in Range(panes[i].values) :
         \E e \in written : e[1] = v /\ within(e[2], panes[i].window)
    /\ cfg.wfn.kind = "FixedWindows" =>
         \A w \in SeenWindows : paned(w) \cup stored(w) = written_to(w)

\* C3 witness: a window has yielded two non-empty panes in DISCARDING mode,
\* one of them with an element written to a window merged into it
C3_Witness ==
  /\ cfg.mode = DISCARDING
  /\ \E i, j \in DOMAIN panes :
       /\ i < j
       /\ panes[i].window = panes[j].window
       /\ panes[i].values # <<>>
       /\ panes[j].values # <<>>
       /\ \E e \in written : e[1] \in Range(panes[i].values) /\ e[2] # panes[i].window

\* C4 -- in ACCUMULATING mode a pane contains every element of each earlier
\* pane of the same window, and of each earlier pane of a window that has
\* since been merged into it.
C4_AccumulatingGrows ==
  cfg.mode = ACCUMULATING =>
    \A i, j \in DOMAIN panes :
      (i < j /\ within(panes[i].window, panes[j].window)) =>
        /\ Range(panes[i].values) \subseteq Range(panes[j].values)
        /\ Len(panes[i].values) <= Len(panes[j].values)

\* C4 witness: a window yielded a non-empty pane, was merged into a larger
\* window, and that window yielded a larger pane
C4_Witness ==
  /\ cfg.mode = ACCUMULATING
  /\ \E i, j \in DOMAIN panes :
       /\ i < j
       /\ panes[i].window # panes[j].window
       /\ within(panes[i].window, panes[j].window)
       /\ panes[i].values # <<>>
       /\ Len(panes[j].values) > Len(panes[i].values)

\* the elements written, by the time of pane p, to its window or to a window
\* lying within it
written_by(p) == {e[1] : e \in {e \in written : within(e[2], p.window) /\ e[1] <= p.upto}}

\* how many elements of pane p were delivered before the call that yielded it
before_call(p) == Cardinality({k \in DOMAIN p.values : p.values[k] <= p.from})

\* how many of them were written to the pane's own window
own_before_call(p) ==
  Cardinality({k \in DOMAIN p.values :
                 p.values[k] <= p.from /\ <<p.values[k], p.window>> \in written})

live_windows ==
  {w \in known_windows(Adapter_init(RawState)) :
     Adapter_get_state(Adapter_init(RawState), w, TOMBSTONE) = 0}

\* C5 as stated -- under AfterCount(n) the only pane of a window holds exactly
\* n elements, however the elements are split across calls.
C5_PaneHoldsExactlyCount ==
  cfg.trigger.kind = "AfterCount" =>
    \A i \in DOMAIN panes : Len(panes[i].values) = cfg.trigger.count

\* C5 amended -- under AfterCount(n) a window fires in the first
\* process_elements call by which at least n elements have been added to it
\* (those of windows merged into it included), after all elements of that
\* call for the window were added: its one pane is finished and holds every
\* element added up to then, at least n of them, and exactly n when the window
\* took part in no merge and the call delivered one element; nothing is added
\* to the window afterwards, and no live window holds n elements unfired.
C5_AfterCountFiresOnce ==
  cfg.trigger.kind = "AfterCount" =>
    /\ \A i \in DOMAIN panes :
         /\ panes[i].finished
         /\ panes[i].op = "process_elements"
         /\ Len(panes[i].values) >= cfg.trigger.count
         /\ own_before_call(panes[i]) < cfg.trigger.count
         /\ Range(panes[i].values) = written_by(panes[i])
         /\ cfg.wfn.kind = "FixedWindows" =>
              /\ before_call(panes[i]) < cfg.trigger.count
              /\ panes[i].upto = panes[i].from + 1 =>
                   Len(panes[i].values) = cfg.trigger.count
         /\ \A j \in DOMAIN panes : j # i => panes[j].window # panes[i].window
         /\ \A e \in written : e[2] = panes[i].window => e[1] <= panes[i].upto
    /\ \A w \in live_windows : Cardinality(stored(w)) < cfg.trigger.count

\* C5 witness: a window that merges with no other, given one element and then
\* two in one call, has yielded a pane of three
C5_Witness ==
  /\ cfg.trigger.kind = "AfterCount"
  /\ cfg.wfn.kind = "FixedWindows"
  /\ \E i \in DOMAIN panes :
       /\ Len(panes[i].values) = cfg.trigger.count + 1
       /\ before_call(panes[i]) = 1

\* C6 -- under AfterWatermark() without early or late triggers a window
\* yields exactly one pane at the first should_fire evaluation with
\* watermark >= window.end, that is in the first process_timer call that
\* finds the window unfinished with a timestamp at or past its end, and in no
\* other call: the pane is finished and holds every element added to the
\* window so far, and nothing is yielded for the window before or afterwards.
C6_AfterWatermarkFiresOnce ==
  cfg.trigger = AfterWatermark(NoTrigger, NoTrigger) =>
    /\ \A i \in DOMAIN panes :
         /\ panes[i].finished
         /\ panes[i].op = "process_timer"
         /\ panes[i].at_end
         /\ Range(panes[i].values) = written_by(panes[i])
         /\ Len(panes[i].values) = Cardinality(written_by(panes[i]))
         /\ \A j \in DOMAIN panes : j # i => panes[j].window # panes[i].window
    /\ last.op = "process_elements" => out = <<>>
    /\ (last.op = "process_timer" /\ last.resolved # {}) =>
         /\ last.err = ""
         /\ Len(out) = (IF \E w \in last.resolved : ~last.tombstoned /\ last.timestamp >= w.end
                          THEN 1 ELSE 0)
         /\ \A i \in DOMAIN out : out[i].window \in last.resolved

\* C6 witness: a window that yielded its pane of two elements is asked to
\* fire again by a later timer, and yields nothing
C6_Witness ==
  /\ cfg.trigger = AfterWatermark(NoTrigger, NoTrigger)
  /\ last.op = "process_timer"
  /\ last.tombstoned
  /\ out = <<>>
  /\ \E i \in DOMAIN panes : panes[i].window \in last.resolved /\ Len(panes[i].values) = 2

\* the event of the underlying trigger of the top-level Repeatedly
inner_event(e, op) ==
  /\ e.op = op
  /\ e.kind = cfg.trigger.triggers[1].kind
  /\ e.prefix = ""

\* C7 -- Repeatedly(t).on_fire always returns false, so no pane is finished
\* and no window is tombstoned; whenever t.on_fire returns true, t.reset is
\* called next, on the same context, before Repeatedly.on_fire returns, and
\* only then.
C7_RepeatedlyNeverFinishes ==
  cfg.trigger.kind = "Repeatedly" =>
    /\ \A i \in DOMAIN panes : ~panes[i].finished
    /\ \A k \in DOMAIN state : k[2] # TOMBSTONE.name
    /\ \A i \in DOMAIN last.ev :
         /\ (last.ev[i].op = "on_fire" /\ last.ev[i].kind = "Repeatedly") =>
              /\ ~last.ev[i].fin
              /\ \E j \in 1 .. (i - 1) :
                   /\ inner_event(last.ev[j], "on_fire")
                   /\ last.ev[j].window = last.ev[i].window
         /\ (inner_event(last.ev[i], "on_fire") /\ last.ev[i].fin) =>
              /\ i + 1 \in DOMAIN last.ev
              /\ inner_event(last.ev[i + 1], "reset")
              /\ last.ev[i + 1].window = last.ev[i].window
         /\ inner_event(last.ev[i], "reset") =>
              /\ i - 1 \in DOMAIN last.ev
              /\ inner_event(last.ev[i - 1], "on_fire")
              /\ last.ev[i - 1].fin
    /\ cfg.trigger.triggers[1].kind = "AfterCount" =>
         \A i \in DOMAIN out :
           Adapter_get_state(Adapter_init(RawState), out[i].window, COUNT_TAG) = 0

\* C7 witness: under Repeatedly a window has yielded two panes, the last one
\* in a call where the underlying trigger finished and was reset
C7_Witness ==
  /\ cfg.trigger.kind = "Repeatedly"
  /\ \E i \in Earlier : \E j \in DOMAIN out : panes[i].window = out[j].window
  /\ \E i \in DOMAIN last.ev : inner_event(last.ev[i], "reset")

\* C8 as stated -- a process_timer call whose timer_id resolves to no window
\* is dropped: it yields no pane, raises no error and changes no state.  The
\* call considered is the first timer call made, for a timer that was set and
\* is still in the timer table.
C8_UnresolvedTimerIsDropped ==
  (last.op = "process_timer" /\ last.resolved = {} /\ last.pending /\ ntimers = 1) =>
    /\ last.err = ""
    /\ out = <<>>
    /\ RawState = last.before

-----------------------------------------------------------------------------
(* Properties of the default-global-batch driver, stated of SpecBatch.    *)

\* C9 -- a process_elements call on the default-global-batch driver yields
\* exactly one pane, (GlobalWindow, all input values in input order), for any
\* input, the empty one included, whatever windows the values carry, and
\* leaves the state backend as it was.
C9_BatchYieldsOneGlobalPane ==
  last.op = "process_elements" =>
    /\ Len(out) = 1
    /\ out[1].window = GlobalWindow
    /\ Len(out[1].values) = Len(last.input)
    /\ \A i \in DOMAIN last.input : out[1].values[i] = last.input[i].value
    /\ last.err = ""
    /\ RawState = last.before

\* C9 witness: a call on a used backend with two values, neither windowed into
\* the global window, has yielded them in one pane
C9_Witness ==
  /\ last.op = "process_elements"
  /\ Len(last.input) = 2
  /\ \A i \in DOMAIN last.input : GlobalWindow \notin last.input[i].windows
  /\ state # EmptyMap
  /\ Len(out) = 1
  /\ Len(out[1].values) = 2

\* C10 -- a process_timer call on the default-global-batch driver always
\* fails with an error: it yields nothing and leaves the state backend as it
\* was.
C10_BatchTimerFails ==
  last.op = "process_timer" =>
    /\ last.err = "TypeError"
    /\ out = <<>>
    /\ RawState = last.before

\* C10 witness: process_timer was called on a backend that holds a timer
C10_Witness ==
  /\ last.op = "process_timer"
  /\ last.err # ""
  /\ timers # EmptyMap

-----------------------------------------------------------------------------
(* Properties of the merge adapter, stated of SpecAdapter.                 *)

\* the id list of a window in the id map window_ids
ids_in(window_ids, window) == Get(window_ids, window, <<>>)

\* the values hist says belong to a window under a tag name
owned(window, name) == {v \in DOMAIN hist.owner : hist.owner[v] = <<window, name>>}

C12_WritesFirstReadsAll ==
  /\ (last.op = "add_state" /\ last.err = "") =>
       /\ last.context.window \in DOMAIN global_state
       /\ ids_in(last.before.global_state, last.context.window) \in
            {<<>>, global_state[last.context.window]}
       /\ ids_in(last.before.global_state, last.context.window) = <<>> =>
            /\ Len(global_state[last.context.window]) = 1
            /\ global_state[last.context.window][1] \notin
                 AllIds(last.before.global_state)
       /\ state =
            Put(last.before.state,
                <<global_state[last.context.window][1], last.tag.name>>,
                Append(Get(last.before.state,
                           <<global_state[last.context.window][1], last.tag.name>>,
                           <<>>),
                       last.value))
       /\ timers = last.before.timers
  /\ (last.op = "set_timer" /\ last.err = "") =>
       /\ last.context.window \in DOMAIN global_state
       /\ ids_in(last.before.global_state, last.context.window) \in
            {<<>>, global_state[last.context.window]}
       /\ timers = Put(last.before.timers,
                       <<global_state[last.context.window][1], "">>, last.timestamp)
       /\ state = last.before.state
  /\ (last.op = "get_state" /\ last.tag.variant = "List") =>
       /\ last.err = ""
       /\ last.result[1] =
            Flatten([i \in DOMAIN ids_in(global_state, last.context.window) |->
                       Get(state, <<ids_in(global_state, last.context.window)[i],
                                    last.tag.name>>, <<>>)])
       /\ Range(last.result[1]) = owned(last.context.window, last.tag.name)
       /\ Len(last.result[1]) = Cardinality(owned(last.context.window, last.tag.name))

\* a list read over two ids that both hold values, the second value written
\* after the merge
C12_Witness ==
  /\ last.op = "get_state"
  /\ last.tag.variant = "List"
  /\ Len(ids_in(global_state, last.context.window)) = 2
  /\ Len(last.result[1]) = 3
  /\ \E k \in DOMAIN state : k[1] = global_state[last.context.window][2]
                               /\ k[2] = "elements"
  /\ Len(Get(state, <<global_state[last.context.window][1], "elements">>, <<>>)) = 2

(* C13: get_state with a Combining tag returns the combine of all values   *)
(* added to the window and to every window merged into it since they were  *)
(* last cleared: for the count, the sum of the counts stored under its     *)
(* ids, which is the number of those values; with one id the value stored  *)
(* under it, with no id the combine of no inputs.                          *)
C13_CombiningReadsAll ==
  (last.op = "get_state" /\ last.tag.variant = "Combining") =>
    /\ last.err = ""
    /\ last.result[1] = Cardinality(owned(last.context.window, last.tag.name))
    /\ last.result[1] =
         Sum([i \in DOMAIN ids_in(global_state, last.context.window) |->
                combine_apply(last.tag.fn,
                              Get(state, <<ids_in(global_state, last.context.window)[i],
                                           last.tag.name>>, <<>>))])
    /\ Len(ids_in(global_state, last.context.window)) = 1 =>
         last.result[1] =
           combine_apply(last.tag.fn,
                         Get(state, <<global_state[last.context.window][1],
                                      last.tag.name>>, <<>>))
    /\ ids_in(global_state, last.context.window) = <<>> =>
         last.result[1] = combine_apply(last.tag.fn, <<>>)

\* a count read over two ids that both hold a count
C13_Witness ==
  /\ last.op = "get_state"
  /\ last.tag.variant = "Combining"
  /\ Len(ids_in(global_state, last.context.window)) = 2
  /\ <<global_state[last.context.window][1], "count">> \in DOMAIN state
  /\ <<global_state[last.context.window][2], "count">> \in DOMAIN state
  /\ last.result[1] >= 2

\* the ids a merge hands to merge_result out of the id map old: those of
\* the known windows of to_be_merged other than merge_result, in list order
handed(old, to_be_merged, merge_result) ==
  Flatten([i \in DOMAIN to_be_merged |->
             IF to_be_merged[i] # merge_result
               THEN ids_in(old, to_be_merged[i]) ELSE <<>>])

\* how many ids the windows ws have in an id map
RECURSIVE ids_count(_, _)
ids_count(window_ids, ws) ==
  IF ws = {} THEN 0
  ELSE Len(window_ids[CHOOSE w \in ws : TRUE]) +
       ids_count(window_ids, ws \ {CHOOSE w \in ws : TRUE})

(* C14: after merge(to_be_merged, merge_result) the id list of merge_result *)
(* is its old list (empty if it had none) followed by the lists of the     *)
(* known windows of to_be_merged other than merge_result, in list order;   *)
(* those windows are no longer known; every other window keeps its list;   *)
(* the ids are the same as before, each as often; and the map is the one   *)
(* persisted to global state.                                              *)
C14_MergeMovesIds ==
  last.op = "merge" =>
    /\ last.err = ""
    /\ ids_in(global_state, last.merge_result) =
         ids_in(last.before.global_state, last.merge_result) \o
         handed(last.before.global_state, last.to_be_merged, last.merge_result)
    /\ \A w \in Range(last.to_be_merged) \ {last.merge_result} :
         w \notin DOMAIN global_state
    /\ \A w \in AdapterWindows \ (Range(last.to_be_merged) \cup {last.merge_result}) :
         /\ w \in DOMAIN global_state <=> w \in DOMAIN last.before.global_state
         /\ ids_in(global_state, w) = ids_in(last.before.global_state, w)
    /\ AllIds(global_state) = AllIds(last.before.global_state)
    /\ ids_count(global_state, DOMAIN global_state) = Cardinality(AllIds(global_state))
    /\ ids_count(last.before.global_state, DOMAIN last.before.global_state) =
         Cardinality(AllIds(last.before.global_state))
    /\ last.window_ids = global_state

\* a merge of two known windows into a third known one
C14_Witness ==
  /\ last.op = "merge"
  /\ last.merge_result \notin Range(last.to_be_merged)
  /\ last.merge_result \in DOMAIN last.before.global_state
  /\ \A w \in Range(last.to_be_merged) : w \in DOMAIN last.before.global_state

(* C16: the ids come from a counter that only grows: an id that enters the *)
(* id map is greater than every id that entered it before on the same      *)
(* backend, so that none is issued twice.                                  *)
C16_IdsIncrease ==
  \A i, j \in DOMAIN hist.allocated :
    i < j => hist.allocated[i] < hist.allocated[j]

-----------------------------------------------------------------------------
(* Properties of the contexts, stated of SpecContext.                      *)

(* C15: merge([W], W) followed by trigger_fn.on_merge([W], W, context)     *)
(* changes nothing: the id map, the stored state and the timers are as     *)
(* they were.                                                              *)
C15_SelfMergeIsNoOp ==
  last.op = "merge_singleton" =>
    /\ last.err = ""
    /\ RawState = last.before
    /\ last.window_ids = last.before.global_state

\* the self-merge of a window that has two ids, a timer and state
C15_Witness ==
  /\ last.op = "merge_singleton"
  /\ last.trigger = DefaultTrigger
  /\ Len(ids_in(global_state, last.merge_result)) = 2
  /\ <<global_state[last.merge_result][1], "">> \in DOMAIN timers
  /\ state # EmptyMap

\* the adapter a call was made on
adapter_before == Adapter(last.before, last.counter)

\* the backend an adapter call leaves
raw_of(st) == [timers |-> st.timers, state |-> st.state, global_state |-> st.global_state]

(* C17: an operation on NestedContext(NestedContext(ctx, "a/"), "b/") is   *)
(* the operation on ctx with the prefix "a/b/": add_state, get_state and   *)
(* clear_state with tag.with_prefix("a/b/"), set_timer and clear_timer     *)
(* with "a/b/" + tag; with_prefix changes the name of a tag and leaves its *)
(* variant and combine function.                                           *)
C17_NestedPrefixes ==
  /\ \A tag \in AdapterTags :
       with_prefix(with_prefix(tag, "b/"), "a/") =
         [name |-> "a/b/" \o tag.name, variant |-> tag.variant, fn |-> tag.fn]
  /\ last.context = Nested(last.context.window) =>
       /\ last.op = "add_state" =>
            RawState = raw_of(Adapter_add_state(adapter_before, last.context.window,
                                                with_prefix(last.tag, "a/b/"), last.value))
       /\ last.op = "get_state" =>
            /\ RawState = last.before
            /\ last.result[1] = Adapter_get_state(adapter_before, last.context.window,
                                                  with_prefix(last.tag, "a/b/"))
       /\ last.op = "clear_state" =>
            RawState = raw_of(Adapter_clear_state(adapter_before, last.context.window,
                                                  with_prefix(last.tag, "a/b/")))
       /\ last.op = "set_timer" =>
            RawState = raw_of(Adapter_set_timer(adapter_before, last.context.window,
                                                "a/b/", last.timestamp))
       /\ last.op = "clear_timer" =>
            RawState = raw_of(Adapter_clear_timer(adapter_before, last.context.window,
                                                  "a/b/"))

\* a read through the nested context of what was written through it, the
\* same tag holding something else in the bare context
C17_Witness ==
  /\ last.op = "get_state"
  /\ last.context = Nested(last.context.window)
  /\ last.tag = ELEMENTS
  /\ last.result[1] # <<>>
  /\ <<global_state[last.context.window][1], "elements">> \in DOMAIN state
  /\ <<global_state[last.context.window][1], "a/b/">> \in DOMAIN timers

-----------------------------------------------------------------------------
(* Properties of the in-memory backend's timers, stated of SpecTimers.     *)

\* the timers of a timer table that are due at a watermark
due(table, watermark) == {k \in DOMAIN table : table[k] <= watermark}

(* C18: get_and_clear_timers(watermark) returns exactly the pending timers *)
(* whose timestamp is at most the watermark, each once, removes exactly    *)
(* those and leaves the later ones as they were; called again at once, it  *)
(* returns nothing.                                                        *)
C18_ReturnsDueTimers ==
  last.op = "get_and_clear_timers" =>
    /\ last.err = ""
    /\ Range(last.expired) =
         {<<k[1], <<k[2], last.before.timers[k]>>>> :
            k \in due(last.before.timers, last.watermark)}
    /\ Len(last.expired) = Cardinality(due(last.before.timers, last.watermark))
    /\ DOMAIN timers = DOMAIN last.before.timers \ due(last.before.timers, last.watermark)
    /\ \A k \in DOMAIN timers : timers[k] = last.before.timers[k]
    /\ due(timers, last.watermark) = {}
    /\ last.repeated => last.expired = <<>>

\* a call that returns one timer and leaves a later one
C18_Witness ==
  /\ last.op = "get_and_clear_timers"
  /\ Len(last.expired) = 1
  /\ \E k \in DOMAIN timers : timers[k] > last.watermark

(* C19: the timer table holds at most one timestamp for a window and tag:  *)
(* the pending timer is the timestamp of the last set_timer that no        *)
(* clear_timer followed; a timer that was cleared or returned is not       *)
(* returned until it is set again.                                         *)
C19_LastSetTimerPends ==
  /\ timers = hist.pending
  /\ last.op = "get_and_clear_timers" =>
       \A i \in DOMAIN last.expired :
         /\ <<last.expired[i][1], last.expired[i][2][1]>> \in DOMAIN last.pending
         /\ last.pending[<<last.expired[i][1], last.expired[i][2][1]>>] =
              last.expired[i][2][2]
         /\ \A j \in DOMAIN last.expired :
              (last.expired[i][1] = last.expired[j][1] /\
               last.expired[i][2][1] = last.expired[j][2][1]) => i = j

\* a timer set twice, the later timestamp pending
C19_Witness ==
  /\ last.op = "set_timer"
  /\ <<last.window, last.timer>> \in DOMAIN last.before.timers
  /\ last.before.timers[<<last.window, last.timer>>] # last.timestamp
  /\ timers[<<last.window, last.timer>>] = last.timestamp

-----------------------------------------------------------------------------
(* Properties of the in-memory backend's state, stated of SpecState.       *)

\* Python's None, as a read result
None == <<"None">>

(* C20: get_state of a (window, tag) that was never written or was cleared *)
(* does not fail and returns the default of the tag's variant: the empty   *)
(* list for List, None for Value, the combine of no inputs for Combining.  *)
C20_AbsentReadsDefault ==
  (last.op = "get_state" /\ <<last.window, last.tag.name>> \notin DOMAIN state) =>
    /\ last.err = ""
    /\ last.tag.variant = "List" => last.result[1] = <<>>
    /\ last.tag.variant = "Value" => last.result[1] = None
    /\ last.tag.variant = "Combining" => last.result[1] = combine_apply(last.tag.fn, <<>>)

-----------------------------------------------------------------------------
(* The general driver with composite triggers, over FixedWindows(2) and    *)
(* timestamps of its first window, and with the watermark triggers over    *)
(* Sessions(2) as well.  The calls are those of Spec, each recorded with   *)
(* the backend it found; TriggerReset is the trigger's own reset, called   *)
(* on the context of a live window.                                        *)

MaxTrigElems == 4

ElementStamps == 0 .. 1

FiringStamps == 1 .. 3

CompositeTriggers ==
  {DefaultTrigger,
   AfterWatermark(NoTrigger, NoTrigger),
   AfterWatermark(NoTrigger, AfterCount(1)),
   AfterWatermark(AfterCount(2), AfterCount(1)),
   Repeatedly(AfterCount(1)),
   Repeatedly(AfterCount(2)),
   AfterEach(<<AfterCount(1), AfterCount(2)>>),
   AfterEach(<<Repeatedly(AfterCount(1)), AfterCount(2)>>),
   AfterFirst(<<AfterCount(1), AfterCount(2)>>),
   OrFinally(Repeatedly(AfterCount(1)), AfterWatermark(NoTrigger, NoTrigger)),
   AfterAll(<<AfterCount(1), AfterCount(2)>>),
   AfterAll(<<Repeatedly(AfterCount(1)), AfterCount(2)>>)}

\* the triggers that are also run over merging windows
WatermarkTriggers ==
  {DefaultTrigger,
   AfterWatermark(NoTrigger, NoTrigger),
   AfterWatermark(NoTrigger, AfterCount(1)),
   AfterWatermark(AfterCount(2), AfterCount(1))}

TriggerConfigs ==
  {Cfg(FixedWindows(2), trigger, mode) : trigger \in CompositeTriggers, mode \in Modes}
    \cup {Cfg(Sessions(2), trigger, mode) : trigger \in WatermarkTriggers, mode \in Modes}

InitTrigger == cfg \in TriggerConfigs /\ InitBackend

\* the windowed values of one call, all in the window [0, 2)
TriggerInputs(n) ==
  {[i \in 1 .. n |-> [value |-> nelems + i, timestamp |-> ts[i],
                      windows |-> assign(cfg.wfn, ts[i])]] : ts \in [1 .. n -> ElementStamps]}

\* the effect of a process_elements call that returned r, but for hist
ElementsObservedBackend(r, windowed_values) ==
  /\ timers' = r.st.timers
  /\ state' = r.st.state
  /\ global_state' = r.st.global_state
  /\ out' = r.out
  /\ last' = [NoCall EXCEPT !.op = "process_elements", !.err = r.st.err,
                !.input = windowed_values, !.merged_away = r.merged_away,
                !.dropped = r.dropped, !.ev = r.st.ev, !.before = RawState]
  /\ panes' = panes \o Recorded(r.out, "process_elements", NegInf,
                                 nelems + Len(windowed_values))
  /\ written' = written \cup r.added
  /\ nelems' = nelems + Len(windowed_values)
  /\ UNCHANGED <<cfg, ntimers, counter>>

\* the effect of a process_elements call that returned r
ElementsObserved(r, windowed_values) ==
  ElementsObservedBackend(r, windowed_values) /\ UNCHANGED hist

\* the element adding, its dict iterated in any order
ObserveElements(m, windowed_values) ==
  \E order2 \in Orders(DOMAIN m.buckets) :
    ElementsObserved(process_elements_adding(m, cfg, order2), windowed_values)

TriggerElements ==
  \E n \in BatchSizes :
    /\ nelems + n <= MaxTrigElems
    /\ \E windowed_values \in TriggerInputs(n) :
       \E order1 \in Orders(DOMAIN bucket(windowed_values)) :
         ObserveElements(process_elements_merging(RawState, windowed_values, cfg, order1),
                         windowed_values)

\* the effect of a process_timer call that returned r
TimerObserved(r, call, window) ==
  /\ timers' = r.st.timers
  /\ state' = r.st.state
  /\ global_state' = r.st.global_state
  /\ out' = r.out
  /\ panes' = panes \o Recorded(r.out, "process_timer", call.timestamp, nelems)
  /\ last' = [call EXCEPT !.err = r.st.err, !.ev = r.st.ev, !.resolved = {window},
                !.tombstoned =
                  Adapter_get_state(Adapter_init(RawState), window, TOMBSTONE) > 0,
                !.before = RawState]

TriggerTimer ==
  /\ ntimers < MaxTimerCalls
  /\ ntimers' = ntimers + 1
  /\ UNCHANGED <<cfg, written, nelems, counter, hist>>
  /\ \E timer_id \in IssuedIds, timestamp \in FiringStamps :
       IF windows_of(Adapter_init(RawState), timer_id) = {}
         THEN TimerFailed(TimerCall(timer_id, timestamp))
         ELSE \E window \in windows_of(Adapter_init(RawState), timer_id) :
                TimerObserved(process_timer(RawState, window, timestamp, cfg),
                              TimerCall(timer_id, timestamp), window)

\* the effect of trigger_fn.reset(window, context) that left the backend st
ResetObserved(st, window) ==
  /\ timers' = st.timers
  /\ state' = st.state
  /\ global_state' = st.global_state
  /\ out' = <<>>
  /\ last' = [NoCall EXCEPT !.op = "reset", !.err = st.err, !.resolved = {window},
                !.ev = st.ev, !.before = RawState]

TriggerReset ==
  /\ ntimers < MaxTimerCalls
  /\ ntimers' = ntimers + 1
  /\ UNCHANGED <<cfg, panes, written, nelems, counter, hist>>
  /\ \E window \in live_windows :
       ResetObserved(reset(cfg.trigger, Adapter_init(RawState), window,
                           TriggerContext(window)),
                     window)

NextTrigger == TriggerElements \/ TriggerTimer \/ TriggerReset

SpecTrigger == InitTrigger /\ [][NextTrigger]_vars

-----------------------------------------------------------------------------
(* Two general drivers given the same calls, each on a backend of its own: *)
(* one with DefaultTrigger, whose backend is timers, state, global_state   *)
(* and whose panes are out, and one with Repeatedly(AfterWatermark()),     *)
(* whose backend, panes and error are kept in hist.                        *)

Twin(c) == [c EXCEPT !.trigger = Repeatedly(AfterWatermark(NoTrigger, NoTrigger))]

TwinState ==
  [timers |-> hist.timers, state |-> hist.state, global_state |-> hist.global_state]

\* what a call that returned r leaves of the second driver
TwinCalled(r) ==
  [timers |-> r.st.timers, state |-> r.st.state, global_state |-> r.st.global_state,
   out |-> r.out, err |-> r.st.err]

PairConfigs == {Cfg(wfn, DefaultTrigger, mode) : wfn \in WindowFns, mode \in Modes}

InitPair ==
  /\ cfg \in PairConfigs
  /\ timers = EmptyMap
  /\ state = EmptyMap
  /\ global_state = EmptyMap
  /\ out = <<>>
  /\ last = NoCall
  /\ panes = <<>>
  /\ written = {}
  /\ nelems = 0
  /\ ntimers = 0
  /\ counter = <<>>
  /\ hist = [timers |-> EmptyMap, state |-> EmptyMap, global_state |-> EmptyMap,
             out |-> <<>>, err |-> ""]

\* the effect of a process_elements call that returned r in the first driver
\* and twin in the second
PairProcessed(r, twin, windowed_values) ==
  /\ timers' = r.st.timers
  /\ state' = r.st.state
  /\ global_state' = r.st.global_state
  /\ out' = r.out
  /\ hist' = TwinCalled(twin)
  /\ last' = [NoCall EXCEPT !.op = "process_elements", !.err = r.st.err,
                !.input = windowed_values, !.merged_away = r.merged_away,
                !.dropped = r.dropped]
  /\ panes' = panes \o Recorded(r.out, "process_elements", NegInf,
                                 nelems + Len(windowed_values))
  /\ written' = written \cup r.added
  /\ nelems' = nelems + Len(windowed_values)
  /\ UNCHANGED <<cfg, ntimers, counter>>

\* the element adding of the two drivers, their dicts iterated in the same
\* order when they hold the same windows
PairAdding(m, twin, windowed_values) ==
  \E order2 \in Orders(DOMAIN m.buckets), twin_order2 \in Orders(DOMAIN twin.buckets) :
    /\ DOMAIN m.buckets = DOMAIN twin.buckets => twin_order2 = order2
    /\ PairProcessed(process_elements_adding(m, cfg, order2),
                     process_elements_adding(twin, Twin(cfg), twin_order2),
                     windowed_values)

PairElements ==
  \E n \in BatchSizes :
    /\ nelems + n <= MaxElems
    /\ \E windowed_values \in Inputs(n) :
       \E order1 \in Orders(DOMAIN bucket(windowed_values)) :
         PairAdding(process_elements_merging(RawState, windowed_values, cfg, order1),
                    process_elements_merging(TwinState, windowed_values, Twin(cfg), order1),
                    windowed_values)

\* process_timer of one driver: get_window raises ValueError when no window
\* holds timer_id
timer_results(raw, timer_id, timestamp, c) ==
  IF windows_of(Adapter_init(raw), timer_id) = {}
    THEN {[st |-> [Adapter_init(raw) EXCEPT !.err = "ValueError"], out |-> <<>>]}
    ELSE {process_timer(raw, window, timestamp, c) :
            window \in windows_of(Adapter_init(raw), timer_id)}

PairTimer ==
  /\ ntimers < MaxTimerCalls
  /\ ntimers' = ntimers + 1
  /\ UNCHANGED <<cfg, written, nelems, counter>>
  /\ \E timer_id \in IssuedIds, timestamp \in TimerStamps :
     \E r \in timer_results(RawState, timer_id, timestamp, cfg),
        twin \in timer_results(TwinState, timer_id, timestamp, Twin(cfg)) :
       /\ timers' = r.st.timers
       /\ state' = r.st.state
       /\ global_state' = r.st.global_state
       /\ out' = r.out
       /\ hist' = TwinCalled(twin)
       /\ panes' = panes \o Recorded(r.out, "process_timer", timestamp, nelems)
       /\ last' = [TimerCall(timer_id, timestamp) EXCEPT !.err = r.st.err]

NextPair == PairElements \/ PairTimer

SpecPair == InitPair /\ [][NextPair]_vars

-----------------------------------------------------------------------------
(* The general driver over Sessions(2), each call                          *)
(* recorded with the backend it found; hist keeps the window-id map the    *)
(* call's adapter held in memory when the call ended, and every value     *)
(* delivered so far with the window that window_fn.assign gave it.         *)

\* the (value, window) pairs window_fn.assign gave for the values of a call
assigned(windowed_values) ==
  UNION {{<<windowed_values[i].value, w>> : w \in windowed_values[i].windows} :
           i \in DOMAIN windowed_values}

SessionTriggers == {DefaultTrigger, AfterCount(2), AfterWatermark(NoTrigger, NoTrigger)}

SessionConfigs ==
  {Cfg(Sessions(2), trigger, mode) : trigger \in SessionTriggers, mode \in Modes}

InitSession ==
  /\ cfg \in SessionConfigs
  /\ timers = EmptyMap
  /\ state = EmptyMap
  /\ global_state = EmptyMap
  /\ out = <<>>
  /\ last = NoCall
  /\ panes = <<>>
  /\ written = {}
  /\ nelems = 0
  /\ ntimers = 0
  /\ counter = <<>>
  /\ hist = [window_ids |-> EmptyMap, seen |-> {}]

\* the effect of a process_elements call that returned r
SessionElementsObserved(r, windowed_values) ==
  /\ ElementsObservedBackend(r, windowed_values)
  /\ hist' = [window_ids |-> r.st.window_ids,
              seen |-> hist.seen \cup assigned(windowed_values)]

\* the element adding, its dict iterated in any order
SessionAdding(m, windowed_values) ==
  \E order2 \in Orders(DOMAIN m.buckets) :
    SessionElementsObserved(process_elements_adding(m, cfg, order2), windowed_values)

SessionElements ==
  \E n \in BatchSizes :
    /\ nelems + n <= MaxElems
    /\ \E windowed_values \in Inputs(n) :
       \E order1 \in Orders(DOMAIN bucket(windowed_values)) :
         SessionAdding(process_elements_merging(RawState, windowed_values, cfg, order1),
                       windowed_values)

\* the effect of a process_timer call that returned r
SessionTimerObserved(r, call, window) ==
  /\ TimerObserved(r, call, window)
  /\ hist' = [hist EXCEPT !.window_ids = r.st.window_ids]

SessionTimer ==
  /\ ntimers < MaxTimerCalls
  /\ ntimers' = ntimers + 1
  /\ UNCHANGED <<cfg, written, nelems, counter>>
  /\ \E timer_id \in IssuedIds, timestamp \in TimerStamps :
       IF windows_of(Adapter_init(RawState), timer_id) = {}
         THEN TimerFailed(TimerCall(timer_id, timestamp)) /\ UNCHANGED hist
         ELSE \E window \in windows_of(Adapter_init(RawState), timer_id) :
                SessionTimerObserved(process_timer(RawState, window, timestamp, cfg),
                                     TimerCall(timer_id, timestamp), window)

NextSession == SessionElements \/ SessionTimer

SpecSession == InitSession /\ [][NextSession]_vars

-----------------------------------------------------------------------------
(* The general driver with DefaultTrigger under a runtime that holds the   *)
(* watermark (in hist): elements arrive at any time, late ones included,   *)
(* and a tick takes the timers due at the watermark from the backend with  *)
(* get_and_clear_timers and hands each of them to process_timer.  The      *)
(* runtime keeps ticking, and the watermark goes on to MaxWatermark, the   *)
(* end of the last window there can be.                                    *)

MaxWatermark == 4

RuntimeConfigs ==
  {Cfg(wfn, DefaultTrigger, DISCARDING) : wfn \in WindowFns}
    \cup {Cfg(Sessions(2), DefaultTrigger, ACCUMULATING)}

InitRuntime ==
  /\ cfg \in RuntimeConfigs
  /\ timers = EmptyMap
  /\ state = EmptyMap
  /\ global_state = EmptyMap
  /\ out = <<>>
  /\ last = NoCall
  /\ panes = <<>>
  /\ written = {}
  /\ nelems = 0
  /\ ntimers = 0
  /\ counter = <<>>
  /\ hist = [watermark |-> 0]

RuntimeElements ==
  \E n \in BatchSizes :
    /\ nelems + n <= MaxElems
    /\ \E windowed_values \in Inputs(n) :
       \E order1 \in Orders(DOMAIN bucket(windowed_values)) :
         ObserveElements(process_elements_merging(RawState, windowed_values, cfg, order1),
                         windowed_values)

\* r = [st, out, err] of a tick so far, p the result of one more process_timer
timer_delivered(r, p) ==
  [st  |-> [timers |-> p.st.timers, state |-> p.st.state,
            global_state |-> p.st.global_state],
   out |-> r.out \o p.out, err |-> p.st.err]

\* process_timer for one timer (window_id, (tag, timestamp)) that
\* get_and_clear_timers returned; an id has at most one window
deliver_timer(r, timer, c) ==
  IF windows_of(Adapter_init(r.st), timer[1]) = {}
    THEN [r EXCEPT !.err = "ValueError"]
    ELSE CHOOSE done \in
           {timer_delivered(r, p) :
              p \in {process_timer(r.st, window, timer[2][2], c) :
                       window \in windows_of(Adapter_init(r.st), timer[1])}} : TRUE

\* the timers of a tick delivered in the order of the list; an error ends it
RECURSIVE deliver_timers(_, _, _)
deliver_timers(r, expired, c) ==
  IF expired = <<>> \/ r.err # "" THEN r
  ELSE CHOOSE done \in {deliver_timers(next, Tail(expired), c) :
                          next \in {deliver_timer(r, expired[1], c)}} : TRUE

\* the effect of a tick that ended as r
TickObserved(r, watermark) ==
  /\ timers' = r.st.timers
  /\ state' = r.st.state
  /\ global_state' = r.st.global_state
  /\ out' = r.out
  /\ panes' = panes \o Recorded(r.out, "process_timer", watermark, nelems)
  /\ last' = [NoCall EXCEPT !.op = "process_timer", !.err = r.err,
                !.timestamp = watermark, !.before = RawState]

\* one tick, at the watermark as it is or advanced by one
RuntimeTick ==
  \E watermark \in {hist.watermark, hist.watermark + 1} :
    /\ watermark <= MaxWatermark
    /\ hist' = [watermark |-> watermark]
    /\ UNCHANGED <<cfg, written, nelems, ntimers, counter>>
    /\ \E expired \in Orders(expired_timers(RawState, watermark)) :
       \E r \in {deliver_timers([st  |-> Raw_get_and_clear_timers(RawState, watermark),
                                  out |-> <<>>, err |-> ""],
                                 expired, cfg)} :
         TickObserved(r, watermark)

NextRuntime == RuntimeElements \/ RuntimeTick

SpecRuntime == InitRuntime /\ [][NextRuntime]_vars /\ WF_vars(RuntimeTick)

-----------------------------------------------------------------------------
(* Properties of the triggers under the general driver, stated of          *)
(* SpecTrigger.                                                            *)

\* C21 -- process_elements evaluates should_fire with watermark -infinity, so
\* a purely watermark-driven trigger yields no pane from process_elements:
\* under DefaultTrigger and under AfterWatermark() every pane comes from
\* process_timer, and under AfterWatermark with no early trigger a pane comes
\* from process_elements only for a window that is late by then, after a
\* process_timer pane at or past the end of a window within it.
C21_WatermarkPanesOnTimersOnly ==
  /\ cfg.trigger \in {DefaultTrigger, AfterWatermark(NoTrigger, NoTrigger)} =>
       /\ last.op = "process_elements" => out = <<>>
       /\ \A i \in DOMAIN panes : panes[i].op = "process_timer"
  /\ (cfg.trigger.kind = "AfterWatermark" /\ early_of(cfg.trigger) = NoTrigger) =>
       /\ last.op = "process_elements" =>
            \A i \in DOMAIN out :
              is_late(cfg.trigger, Adapter_init(RawState), TriggerContext(out[i].window))
       /\ \A i \in DOMAIN panes :
            panes[i].op = "process_elements" =>
              \E j \in 1 .. (i - 1) :
                /\ panes[j].op = "process_timer"
                /\ panes[j].at_end
                /\ within(panes[j].window, panes[i].window)

\* C21 witness: under DefaultTrigger a process_elements call has added to a
\* window that a timer at its end had fired, and has yielded nothing
C21_Witness ==
  /\ cfg.trigger = DefaultTrigger
  /\ last.op = "process_elements"
  /\ out = <<>>
  /\ \E i \in DOMAIN panes : \E e \in written :
       e[2] = panes[i].window /\ e[1] > panes[i].upto

\* C22 -- under DefaultTrigger a process_timer call for a known window yields
\* a pane exactly when its timestamp is at or past the end of the window; no
\* pane is finished and no window is tombstoned, so every later timer at or
\* past the end yields another pane for the window.
C22_DefaultTriggerFiresOnEveryTimer ==
  cfg.trigger = DefaultTrigger =>
    /\ (last.op = "process_timer" /\ last.err = "") =>
         \A window \in last.resolved :
           /\ ~last.tombstoned
           /\ window \in known_windows(Adapter_init(last.before))
           /\ Len(out) = (IF last.timestamp >= window.end THEN 1 ELSE 0)
           /\ \A i \in DOMAIN out : out[i].window = window
    /\ \A i \in DOMAIN panes : ~panes[i].finished
    /\ \A k \in DOMAIN state : k[2] # TOMBSTONE.name

\* C22 witness: a second timer at or past its end has yielded a second pane
\* for a window
C22_Witness ==
  /\ cfg.trigger = DefaultTrigger
  /\ last.op = "process_timer"
  /\ \E i \in Earlier : \E j \in DOMAIN out :
       /\ panes[i].window = out[j].window
       /\ panes[i].op = "process_timer"

\* the backend the last call found, behind an adapter
found == Adapter_init(last.before)

\* the windows the last call was about, and the values it had for a window
called_windows ==
  IF last.op = "process_elements" THEN DOMAIN bucket(last.input) ELSE last.resolved

values_for(window) == bucket(last.input)[window]

was_live(window) == Adapter_get_state(found, window, TOMBSTONE) = 0

\* the watermark the last call evaluated the trigger with
watermark_of_call == IF last.op = "process_elements" THEN NegInf ELSE last.timestamp

\* the backend at the moment the last call consulted the trigger of a window
\* that merges with no other: what the call found, with its values added
consulted(window) ==
  IF last.op = "process_elements" /\ was_live(window)
    THEN add_elements(found, values_for(window), window, cfg.trigger)
    ELSE found

\* the context and the count of subtrigger j (from 0) of the top trigger
child(window, j) == _sub_context(TriggerContext(window), j)

child_count(st, window, j) == ctx_get_state(st, child(window, j), COUNT_TAG)

child_prefix(j) == ToString(j) \o "/"

\* the on_fire calls of the last call, innermost first
on_fires == SelectSeq(last.ev, LAMBDA e : e.op = "on_fire")

\* whether on_fire of subtrigger j reported finished in the last call
child_finished(j) ==
  \E i \in DOMAIN on_fires :
    /\ on_fires[i].prefix = child_prefix(j)
    /\ on_fires[i].kind = cfg.trigger.triggers[j + 1].kind
    /\ on_fires[i].fin

index_at(st, window) == ctx_get_state(st, TriggerContext(window), INDEX_TAG)

\* the index AfterEach.on_fire leaves, from index ix
advanced(ix) == IF child_finished(ix) THEN ix + 1 ELSE ix

\* C23 for one call about a live window, the stored index being ix
C23_Call(window, ix) ==
  /\ last.op = "process_elements" =>
       \A j \in 0 .. (Len(cfg.trigger.triggers) - 1) :
         child_count(consulted(window), window, j) =
           child_count(found, window, j) + (IF j = ix THEN Len(values_for(window)) ELSE 0)
  /\ out # <<>> <=>
       /\ ix < Len(cfg.trigger.triggers)
       /\ should_fire(cfg.trigger.triggers[ix + 1], consulted(window), watermark_of_call,
                      window, child(window, ix))
  /\ out = <<>> =>
       /\ last.ev = <<>>
       /\ index_at(Adapter_init(RawState), window) = ix
  /\ out # <<>> =>
       /\ \A i \in 1 .. (Len(on_fires) - 1) : on_fires[i].prefix = child_prefix(ix)
       /\ \E i \in 1 .. (Len(on_fires) - 1) :
            on_fires[i].kind = cfg.trigger.triggers[ix + 1].kind
       /\ Last(on_fires).prefix = ""
       /\ Last(on_fires).kind = "AfterEach"
       /\ Last(on_fires).fin = (advanced(ix) = Len(cfg.trigger.triggers))
       /\ out[1].finished = Last(on_fires).fin
       /\ ~out[1].finished => index_at(Adapter_init(RawState), window) = advanced(ix)

RECURSIVE cell_names(_)
cell_names(t) ==
  CASE t.kind = "AfterCount" -> {"count"}
    [] t.kind = "AfterWatermark" ->
         {"is_late"} \cup {"early" \o n : n \in cell_names(early_of(t))}
                     \cup {"late" \o n : n \in cell_names(late_of(t))}
    [] t.kind = "Repeatedly" -> cell_names(t.triggers[1])
    [] t.kind \in {"AfterFirst", "AfterAll", "OrFinally", "AfterEach"} ->
         (IF t.kind = "AfterEach" THEN {"index"} ELSE {})
           \cup UNION {{child_prefix(j - 1) \o n : n \in cell_names(t.triggers[j])} :
                         j \in DOMAIN t.triggers}
    [] OTHER -> {}

RECURSIVE timer_names(_)
timer_names(t) ==
  CASE t.kind = "DefaultTrigger" -> {""}
    [] t.kind = "AfterWatermark" ->
         {""} \cup {"early" \o n : n \in timer_names(early_of(t))}
              \cup {"late" \o n : n \in timer_names(late_of(t))}
    [] t.kind = "Repeatedly" -> timer_names(t.triggers[1])
    [] t.kind \in {"AfterFirst", "AfterAll", "OrFinally", "AfterEach"} ->
         UNION {{child_prefix(j - 1) \o n : n \in timer_names(t.triggers[j])} :
                  j \in DOMAIN t.triggers}
    [] OTHER -> {}

\* the subtriggers (from 0) whose should_fire was true when the last call
\* consulted the trigger of the window
firing(window) ==
  {j \in 0 .. (Len(cfg.trigger.triggers) - 1) :
     should_fire(cfg.trigger.triggers[j + 1], consulted(window), watermark_of_call,
                 window, child(window, j))}

\* how often on_fire of subtrigger j was called in the last call
child_fires(j) ==
  Cardinality({i \in DOMAIN on_fires :
                 /\ on_fires[i].prefix = child_prefix(j)
                 /\ on_fires[i].kind = cfg.trigger.triggers[j + 1].kind})

\* what on_fire of trigger t leaves and returns, called when the last call
\* consulted the trigger of the window
outcome(t, window) ==
  [state |-> on_fire(t, consulted(window), watermark_of_call, window,
                     TriggerContext(window)).st.state,
   timers |-> on_fire(t, consulted(window), watermark_of_call, window,
                      TriggerContext(window)).st.timers,
   fin |-> on_fire(t, consulted(window), watermark_of_call, window,
                   TriggerContext(window)).fin]

\* C24 for one call about a live window
C24_Call(window) ==
  /\ out # <<>> <=> firing(window) # {}
  /\ out = <<>> => last.ev = <<>>
  /\ out # <<>> =>
       /\ \A j \in 0 .. (Len(cfg.trigger.triggers) - 1) :
            child_fires(j) = (IF j \in firing(window) THEN 1 ELSE 0)
       /\ out[1].finished <=> \E j \in firing(window) : child_finished(j)
       /\ Last(on_fires).prefix = ""
       /\ Last(on_fires).kind = cfg.trigger.kind
       /\ Last(on_fires).fin = out[1].finished
  /\ cfg.trigger.kind = "OrFinally" =>
       /\ should_fire(AfterFirst(cfg.trigger.triggers), consulted(window),
                      watermark_of_call, window, TriggerContext(window)) = (out # <<>>)
       /\ outcome(AfterFirst(cfg.trigger.triggers), window) = outcome(cfg.trigger, window)

\* C24 -- AfterFirst(t1, ..., tk), and OrFinally(body, exit) as
\* AfterFirst(body, exit): should_fire is true exactly when at least one
\* subtrigger's should_fire is; on_fire calls on_fire on exactly the
\* subtriggers whose should_fire is true at that moment, once each, and
\* reports finished exactly when one of them did; subtrigger i keeps its state
\* and timers under the prefix "i/" only.
C24_AfterFirstFiresWithAny ==
  cfg.trigger.kind \in {"AfterFirst", "OrFinally"} =>
    /\ last.op \in {"process_elements", "process_timer"} =>
         \A window \in called_windows : was_live(window) => C24_Call(window)
    /\ \A k \in DOMAIN state :
         k[2] \in {ELEMENTS.name, TOMBSTONE.name} \cup cell_names(cfg.trigger)
    /\ \A k \in DOMAIN timers : k[2] \in timer_names(cfg.trigger)

\* C24 witness: a call in which one subtrigger fired and another did not, and
\* one in which two fired
C24_Witness ==
  /\ cfg.trigger.kind \in {"AfterFirst", "OrFinally"}
  /\ out # <<>>
  /\ \E window \in called_windows :
       \/ firing(window) = {1} /\ out[1].finished
       \/ firing(window) = {0, 1}

\* C25 as stated -- AfterAll reports finished exactly when every subtrigger
\* has fired at least once: on_fire fires every subtrigger, so every pane
\* would be finished.
C25_FinishedWhenAllHaveFired ==
  cfg.trigger.kind = "AfterAll" =>
    \A i \in DOMAIN out :
      (\A j \in 0 .. (Len(cfg.trigger.triggers) - 1) : child_fires(j) >= 1) =>
        out[i].finished

\* C25 for one call about a live window
C25_Call(window) ==
  /\ out # <<>> <=> firing(window) = 0 .. (Len(cfg.trigger.triggers) - 1)
  /\ out = <<>> => last.ev = <<>>
  /\ out # <<>> =>
       /\ \A j \in 0 .. (Len(cfg.trigger.triggers) - 1) : child_fires(j) = 1
       /\ out[1].finished <=>
            \A j \in 0 .. (Len(cfg.trigger.triggers) - 1) : child_finished(j)
       /\ Last(on_fires).prefix = ""
       /\ Last(on_fires).kind = "AfterAll"
       /\ Last(on_fires).fin = out[1].finished

\* C25 amended -- AfterAll(t1, ..., tk): should_fire is true exactly when
\* every subtrigger's should_fire is; when the driver then calls on_fire,
\* on_fire of every subtrigger is called exactly once and the composite
\* reports finished exactly when every one of these calls returned true.  A
\* subtrigger that fires without finishing keeps the composite unfinished,
\* however often every subtrigger has fired.
C25_AfterAllFinishesWithAll ==
  cfg.trigger.kind = "AfterAll" =>
    /\ last.op \in {"process_elements", "process_timer"} =>
         \A window \in called_windows : was_live(window) => C25_Call(window)
    /\ (\E j \in DOMAIN cfg.trigger.triggers : cfg.trigger.triggers[j].kind = "Repeatedly") =>
         \A i \in DOMAIN panes : ~panes[i].finished

\* C25 witness: every subtrigger has fired, one of them without finishing,
\* and the pane is not finished
C25_Witness ==
  /\ cfg.trigger.kind = "AfterAll"
  /\ \E i \in DOMAIN out :
       /\ ~out[i].finished
       /\ \A j \in 0 .. (Len(cfg.trigger.triggers) - 1) : child_fires(j) = 1
       /\ child_finished(1)

\* the elements delivered after the pane before pane i and up to pane i, in
\* order; every element of these runs goes to the one window
since_previous(i) ==
  [x \in 1 .. (panes[i].upto - (IF i = 1 THEN 0 ELSE panes[i - 1].upto)) |->
     (IF i = 1 THEN 0 ELSE panes[i - 1].upto) + x]

count_now(window) == ctx_get_state(Adapter_init(RawState), TriggerContext(window), COUNT_TAG)

\* C26 as stated -- under Repeatedly(AfterCount(n)) in DISCARDING mode the
\* k-th pane of a window holds exactly its elements (k-1)*n+1 .. k*n, however
\* the elements are split across process_elements calls (no timer fires and
\* the trigger is not reset from outside).
C26_PaneHoldsNextCount ==
  (cfg.trigger.kind = "Repeatedly" /\ cfg.trigger.triggers[1].kind = "AfterCount"
   /\ cfg.mode = DISCARDING /\ ntimers = 0) =>
    \A i \in DOMAIN panes :
      panes[i].values =
        [x \in 1 .. cfg.trigger.triggers[1].count |->
           (i - 1) * cfg.trigger.triggers[1].count + x]

\* C26 amended -- under Repeatedly(AfterCount(n)) in DISCARDING mode the
\* count restarts from zero after every firing: a pane is yielded by the
\* process_elements call that brings the count to n or more, it holds every
\* element added to the window since the previous pane, at least n of them,
\* and the count is zero afterwards; fewer than n counted elements are held
\* without a pane, no pane is finished and the window is never tombstoned.
\* While every call delivers one element the k-th pane holds exactly the
\* elements (k-1)*n+1 .. k*n.
C26_RepeatedlyRestartsCount ==
  (cfg.trigger.kind = "Repeatedly" /\ cfg.trigger.triggers[1].kind = "AfterCount"
   /\ cfg.mode = DISCARDING) =>
    /\ \A k \in DOMAIN state : k[2] # TOMBSTONE.name
    /\ \A i \in DOMAIN panes :
         /\ ~panes[i].finished
         /\ panes[i].op = "process_elements"
         /\ Len(panes[i].values) >= cfg.trigger.triggers[1].count
         /\ panes[i].values = since_previous(i)
         /\ (ntimers = 0 /\ \A j \in 1 .. i : panes[j].upto = panes[j].from + 1) =>
              panes[i].values =
                [x \in 1 .. cfg.trigger.triggers[1].count |->
                   (i - 1) * cfg.trigger.triggers[1].count + x]
    /\ \A window \in SeenWindows :
         /\ count_now(window) < cfg.trigger.triggers[1].count
         /\ (\E i \in DOMAIN out : out[i].window = window) => count_now(window) = 0
         /\ ntimers = 0 => Cardinality(stored(window)) = count_now(window)

\* C26 witness: with n = 2 and one element per call the panes [1, 2] and
\* [3, 4] have been yielded
C26_Witness ==
  /\ cfg.trigger = Repeatedly(AfterCount(2))
  /\ cfg.mode = DISCARDING
  /\ ntimers = 0
  /\ Len(panes) = 2
  /\ panes[1].from = 1
  /\ panes[2].from = 3
  /\ panes[2].values = <<3, 4>>

\* the state cells and the timers of the trigger that the backend holds now
\* for a window
cells_left(window) ==
  {k \in DOMAIN state :
     /\ k[1] \in Range(_get_ids(Adapter_init(RawState), window))
     /\ k[2] \in cell_names(cfg.trigger)
     /\ state[k] # <<>>}

timers_left(window) ==
  {k \in DOMAIN timers :
     /\ k[1] \in Range(_get_ids(Adapter_init(RawState), window))
     /\ k[2] \in timer_names(cfg.trigger)}

\* C27 as stated -- for every trigger kind and every reachable state, after
\* reset(window, context) no state cell and no timer that the trigger or its
\* subtriggers set remains for the window.
C27_ResetClearsAll ==
  last.op = "reset" =>
    \A window \in last.resolved : cells_left(window) = {} /\ timers_left(window) = {}

\* the prefixes of the on_fire calls the last call made for a window, below
\* the top trigger
fired_below(window) ==
  {on_fires[i].prefix : i \in {i \in DOMAIN on_fires :
                                 on_fires[i].window = window /\ on_fires[i].prefix # ""}}

late_now(window) == is_late(cfg.trigger, Adapter_init(RawState), TriggerContext(window))

was_late(window) == is_late(cfg.trigger, found, TriggerContext(window))

phase_count(st, window, prefix) ==
  ctx_get_state(st, NestedContext(TriggerContext(window), prefix), COUNT_TAG)

\* C28 for a pane of the last call: the phase it was fired in
C28_Pane(p) ==
  /\ ~p.finished
  /\ fired_below(p.window) \subseteq {"early", "late"}
  /\ Cardinality(fired_below(p.window)) <= 1
  /\ fired_below(p.window) = {} => (watermark_of_call >= p.window.end /\ late_now(p.window))
  /\ fired_below(p.window) = {"early"} =>
       (watermark_of_call < p.window.end /\ ~late_now(p.window))
  /\ fired_below(p.window) = {"late"} => late_now(p.window)

\* C28 for one call about a live window that merges with no other
C28_Call(window) ==
  /\ was_late(window) =>
       /\ late_now(window)
       /\ timers = last.before.timers
       /\ phase_count(Adapter_init(RawState), window, "early") = phase_count(found, window, "early")
       /\ last.op = "process_elements" =>
            phase_count(consulted(window), window, "late") =
              phase_count(found, window, "late") + Len(values_for(window))
       /\ out # <<>> <=>
            should_fire(late_of(cfg.trigger), consulted(window), watermark_of_call, window,
                        NestedContext(TriggerContext(window), "late"))
       /\ out # <<>> => fired_below(window) = {"late"}
  /\ (~was_late(window) /\ watermark_of_call >= window.end) =>
       /\ Len(out) = 1
       /\ fired_below(window) = {}
       /\ late_now(window)
  /\ (~was_late(window) /\ watermark_of_call < window.end) =>
       /\ ~late_now(window)
       /\ phase_count(Adapter_init(RawState), window, "late") = 0
       /\ out # <<>> =>
            /\ early_of(cfg.trigger) # NoTrigger
            /\ fired_below(window) = {"early"}

\* C28 -- AfterWatermark with a late trigger runs in two phases.  The firing
\* at which the watermark first reaches window.end records that the window is
\* late and does not finish; from then on on_element, should_fire and on_fire
\* go to the late trigger under the prefix "late", and no firing takes the
\* record back (a merge carries it to the merge result); a firing caused by
\* the early trigger below window.end never finishes and leaves the window
\* not late.
C28_AfterWatermarkTwoPhases ==
  (cfg.trigger.kind = "AfterWatermark" /\ late_of(cfg.trigger) # NoTrigger
   /\ last.op \in {"process_elements", "process_timer"}) =>
    /\ \A i \in DOMAIN out : C28_Pane(out[i])
    /\ \A i \in DOMAIN panes : ~panes[i].finished
    /\ \A window \in known_windows(found) :
         was_late(window) =>
           \E merged \in known_windows(Adapter_init(RawState)) :
             within(window, merged) /\ late_now(merged)
    /\ cfg.wfn.kind = "FixedWindows" =>
         \A window \in called_windows : C28_Call(window)

\* C28 witness: a window that fired early below its end and then at its end
\* has fired through its late trigger
C28_Witness ==
  /\ cfg.trigger = AfterWatermark(AfterCount(2), AfterCount(1))
  /\ last.op = "process_elements"
  /\ \E i \in DOMAIN out :
       /\ fired_below(out[i].window) = {"late"}
       /\ was_late(out[i].window)
       /\ \E j \in Earlier : panes[j].op = "process_elements" /\ panes[j].window = out[i].window
       /\ \E j \in Earlier : panes[j].op = "process_timer" /\ panes[j].at_end

\* the values the last call had for the windows that ended up as the window
values_into(window) ==
  {last.input[k].value : k \in {k \in DOMAIN last.input :
     \E w \in last.input[k].windows : chase(last.merged_away, w) = window}}

\* the on_fire calls on the top trigger in the last call
top_fires == SelectSeq(on_fires, LAMBDA e : e.prefix = "" /\ e.kind = cfg.trigger.kind)

\* C30 -- in process_elements the trigger of each surviving, untombstoned
\* window that received values is evaluated exactly once, after all its
\* values of the call were appended to ELEMENTS and passed to on_element: the
\* call yields at most one pane per window, a pane holds every value the call
\* added to its window, and on_fire is called only when should_fire returned
\* true, once for each pane.
C30_TriggerEvaluatedOnce ==
  last.op = "process_elements" =>
    /\ \A i, j \in DOMAIN out : i # j => out[i].window # out[j].window
    /\ \A i \in DOMAIN out :
         /\ values_into(out[i].window) # {}
         /\ values_into(out[i].window) \subseteq Range(out[i].values)
    /\ Len(top_fires) = Len(out)
    /\ \A i \in DOMAIN out :
         top_fires[i].window = out[i].window /\ top_fires[i].fin = out[i].finished
    /\ cfg.wfn.kind = "FixedWindows" =>
         \A window \in called_windows :
           /\ was_live(window) =>
                ((\E i \in DOMAIN out : out[i].window = window) <=>
                   should_fire(cfg.trigger, consulted(window), NegInf, window,
                               TriggerContext(window)))
           /\ ~was_live(window) =>
                /\ out = <<>>
                /\ Range(values_for(window)) \subseteq last.dropped

\* C30 witness: two values for a window whose trigger would fire on each are
\* yielded in one pane
C30_Witness ==
  /\ cfg.trigger = Repeatedly(AfterCount(1))
  /\ last.op = "process_elements"
  /\ Len(last.input) = 2
  /\ Len(out) = 1
  /\ Len(out[1].values) >= 2

-----------------------------------------------------------------------------
(* Properties of the two drivers run side by side, stated of SpecPair.     *)

\* C29 -- DefaultTrigger behaves as Repeatedly(AfterWatermark()): given the
\* same process_elements and process_timer calls, in either accumulation
\* mode and with or without window merges, the two drivers yield the same
\* panes in the same calls, fail in the same calls and keep the same window
\* ids and the same pending timers.
C29_DefaultIsRepeatedWatermark ==
  /\ out = hist.out
  /\ timers = hist.timers
  /\ last.err = hist.err
  /\ global_state = hist.global_state

\* C29 witness: both drivers have yielded a pane of a merged window, and the
\* second keeps the state of a fired AfterWatermark that the first does not
\* have
C29_Witness ==
  /\ out # <<>>
  /\ out = hist.out
  /\ state # hist.state
  /\ \E i \in DOMAIN out : out[i].window.end - out[i].window.start > 2

-----------------------------------------------------------------------------
(* Properties of the window-id map and of merging under the general        *)
(* driver, stated of SpecSession.                                          *)

\* the adapter a call after the last one would build
now == Adapter_init(RawState)

\* the elements the last call yielded in a pane of the window
yielded_for(window) ==
  UNION {Range(out[i].values) : i \in {i \in DOMAIN out : out[i].window = window}}

\* C31 -- for every window that window_fn.merge reported merged into another,
\* the driver merges the id map before it calls on_merge on a context bound to
\* the result, and finishes all merges before it adds a value: after the call
\* the source is no longer known, its ids are ids of the result (unless a
\* finished pane of the call has cleared the result since), a source
\* with another end has had timer '' cleared under every id of the result
\* (on_element has set it again, under the first id and at the result's end),
\* and every value of the call for the source went to the result.
C31_MergeThenOnMergeThenValues ==
  (last.op = "process_elements" /\ last.err = "") =>
    \A w \in DOMAIN last.merged_away :
      /\ w \notin known_windows(now)
      /\ chase(last.merged_away, w) \in known_windows(now)
      /\ (\A i \in DOMAIN out : out[i].window = chase(last.merged_away, w) => ~out[i].finished) =>
           Range(_get_ids(found, w)) \subseteq Range(_get_ids(now, chase(last.merged_away, w)))
      /\ (w.end # chase(last.merged_away, w).end /\ cfg.trigger.kind \in {"DefaultTrigger", "AfterWatermark"}) =>
           \A i \in DOMAIN _get_ids(now, chase(last.merged_away, w)) :
             <<_get_ids(now, chase(last.merged_away, w))[i], "">> \in DOMAIN timers =>
               /\ i = 1
               /\ timers[<<_get_ids(now, chase(last.merged_away, w))[i], "">>] =
                    chase(last.merged_away, w).end
      /\ w \in DOMAIN bucket(last.input) =>
           Range(values_for(w)) \subseteq
             stored(chase(last.merged_away, w)) \cup yielded_for(chase(last.merged_away, w))
               \cup last.dropped

\* two known windows with a timer each were merged with the window of a new
\* value into a window that holds both ids, its timer under the first
C31_Witness ==
  /\ last.op = "process_elements" /\ last.err = ""
  /\ cfg.trigger.kind = "DefaultTrigger"
  /\ \E w, v \in DOMAIN last.merged_away :
       /\ w # v
       /\ {w, v} \subseteq known_windows(found)
       /\ <<_get_ids(found, w)[1], "">> \in DOMAIN found.timers
       /\ <<_get_ids(found, v)[1], "">> \in DOMAIN found.timers
       /\ Len(_get_ids(now, chase(last.merged_away, w))) = 2
       /\ <<_get_ids(now, chase(last.merged_away, w))[1], "">> \in DOMAIN timers

\* the windows the last call found known that it merged into the window,
\* the window itself included
sources_of(window) == {w \in known_windows(found) : chase(last.merged_away, w) = window}

\* the ids the window had when the last call fired it
former_ids(window) == UNION {Range(_get_ids(found, w)) : w \in sources_of(window)}

\* the elements the last call found stored for the window and its sources
found_stored(window) ==
  UNION {Range(Adapter_get_state(found, w, ELEMENTS)) : w \in sources_of(window)}

\* the ids of the known windows other than the window
ids_of_others(window) ==
  UNION {Range(_get_ids(now, w)) : w \in known_windows(now) \ {window}}

\* C32 -- a finishing pane, in either accumulation mode, carries the elements
\* stored for its window when it fired (those the call found and those it
\* added), and leaves the window without stored elements, with nothing but
\* the tombstone stored under any id and nothing at all under a former id
\* that is not its id now, with a TOMBSTONE count of at least 1, and known
\* under exactly one id.
C32_FinishingPaneClearsWindow ==
  last.err = "" =>
    \A i \in DOMAIN out : out[i].finished =>
      /\ Range(out[i].values) =
           found_stored(out[i].window) \cup
             (IF last.op = "process_elements" THEN values_into(out[i].window) ELSE {})
      /\ Adapter_get_state(now, out[i].window, ELEMENTS) = <<>>
      /\ \A k \in DOMAIN state :
           k[1] \in (former_ids(out[i].window) \cup Range(_get_ids(now, out[i].window)))
                      \ ids_of_others(out[i].window) =>
             /\ k[2] = TOMBSTONE.name
             /\ k[1] = _get_ids(now, out[i].window)[1]
      /\ Adapter_get_state(now, out[i].window, TOMBSTONE) >= 1
      /\ out[i].window \in known_windows(now)
      /\ Len(_get_ids(now, out[i].window)) = 1

\* in ACCUMULATING mode a pane finished a window that had two ids, with
\* elements and trigger state under both
C32_Witness ==
  /\ last.err = "" /\ cfg.mode = ACCUMULATING
  /\ \E i \in DOMAIN out :
       /\ out[i].finished
       /\ Cardinality(former_ids(out[i].window)) = 2
       /\ \A id \in former_ids(out[i].window) :
            {<<id, ELEMENTS.name>>, <<id, COUNT_TAG.name>>} \subseteq DOMAIN found.state

\* the windows window_fn.assign has given so far
seen_windows == {p[2] : p \in hist.seen}

\* two windows share a point in time
overlap(a, b) == a.start < b.end /\ b.start < a.end

\* the session of a window among windows: the least window around it that
\* overlaps none of them without containing it
RECURSIVE session_of(_, _)
session_of(w, windows) ==
  LET hit == {v \in windows : overlap(v, w)} \cup {w}
      u   == IntervalWindow(CHOOSE a \in {v.start : v \in hit} : \A v \in hit : a <= v.start,
                            CHOOSE b \in {v.end : v \in hit} : \A v \in hit : b >= v.end)
  IN  IF u = w THEN w ELSE session_of(u, windows)

merged_sessions(windows) == {session_of(w, windows) : w \in windows}

\* C33 -- with session windows, as long as the trigger has not fired (and
\* DefaultTrigger and AfterWatermark do not fire while only process_elements
\* is called), the known windows are exactly the merged sessions of all
\* windows assigned so far, whatever the order and the batching of the
\* arrivals, and every delivered element is stored once, in ELEMENTS of the
\* one known window that is the session of its assigned window.
C33_KnownWindowsAreMergedSessions ==
  /\ (cfg.trigger.kind \in {"DefaultTrigger", "AfterWatermark"} /\ ntimers = 0) => panes = <<>>
  /\ panes = <<>> =>
       /\ known_windows(now) = merged_sessions(seen_windows)
       /\ \A p \in hist.seen : \A w \in known_windows(now) :
            p[1] \in stored(w) <=> w = session_of(p[2], seen_windows)
       /\ \A w \in known_windows(now) :
            Len(Adapter_get_state(now, w, ELEMENTS)) = Cardinality(stored(w))

\* arrivals at 0 and 2 left two sessions, which the arrival at 1 then merged
\* into one that stores all three elements
C33_Witness ==
  /\ panes = <<>> /\ nelems = 3
  /\ Cardinality(known_windows(found)) = 2
  /\ known_windows(now) = {IntervalWindow(0, 4)}
  /\ stored(IntervalWindow(0, 4)) = {1, 2, 3}
  /\ seen_windows = {IntervalWindow(0, 2), IntervalWindow(1, 3), IntervalWindow(2, 4)}

\* the last call found a tombstone on the window or on a window it merged
\* into it
tombstone_found(window) ==
  \E w \in sources_of(window) : Adapter_get_state(found, w, TOMBSTONE) > 0

\* C34 -- tombstones propagate through merges.  A window found tombstoned is
\* still known after the call, itself or as the window it was merged into,
\* and that window is tombstoned; a window with a tombstoned source yields no
\* pane, every value the call bucketed to it is dropped, and the elements
\* stored for it and its sources stay stored.
C34_TombstonesPropagate ==
  (last.op # "none" /\ last.err = "") =>
    /\ \A w \in known_windows(found) : Adapter_get_state(found, w, TOMBSTONE) > 0 =>
         /\ chase(last.merged_away, w) \in known_windows(now)
         /\ Adapter_get_state(now, chase(last.merged_away, w), TOMBSTONE) > 0
    /\ \A d \in known_windows(now) : tombstone_found(d) =>
         /\ \A i \in DOMAIN out : out[i].window # d
         /\ last.op = "process_elements" => values_into(d) \subseteq last.dropped
         /\ stored(d) = found_stored(d)

\* a finished window and a window that still stores an element were merged
\* with the window of a new value: the value was dropped and the stored
\* element stays where no pane will carry it
C34_Witness ==
  /\ last.op = "process_elements" /\ last.err = ""
  /\ \E d \in known_windows(now) :
       /\ tombstone_found(d)
       /\ Cardinality(sources_of(d)) = 2
       /\ values_into(d) # {}
       /\ stored(d) # {}
       /\ stored(d) \cap AllPaned = {}

\* the cells of a table (state or timers) under the given ids
under(table, ids) == [k \in {x \in DOMAIN table : x[1] \in Range(ids)} |-> table[k]]

\* the last call left the window as it found it: its id list, and the state
\* (the tombstone with it) and the timers under its ids
untouched(window) ==
  /\ _get_ids(now, window) = _get_ids(found, window)
  /\ under(state, _get_ids(found, window)) = under(found.state, _get_ids(found, window))
  /\ under(timers, _get_ids(found, window)) = under(found.timers, _get_ids(found, window))
  /\ Adapter_get_state(now, window, TOMBSTONE) = Adapter_get_state(found, window, TOMBSTONE)

\* the windows the last call had values for, merged away, or merged into
involved ==
  IF last.op = "process_elements"
    THEN DOMAIN bucket(last.input) \cup DOMAIN last.merged_away
           \cup {last.merged_away[w] : w \in DOMAIN last.merged_away}
    ELSE last.resolved

distinct_ids(ids) == \A i, j \in DOMAIN ids : i # j => ids[i] # ids[j]

\* C35 -- in the window-id map, as persisted and as the adapter of the last
\* call held it, every window has a non-empty id list, no id occurs twice in
\* a list or in the lists of two windows, and so get_window finds at most one
\* window for a timer id.
C35_IdsResolveToOneWindow ==
  \A window_ids \in {global_state, hist.window_ids} :
    /\ \A w \in DOMAIN window_ids : window_ids[w] # <<>> /\ distinct_ids(window_ids[w])
    /\ \A w, v \in DOMAIN window_ids :
         w # v => Range(window_ids[w]) \cap Range(window_ids[v]) = {}
    /\ \A timer_id \in 1 .. (MaxElems + MaxTimerCalls) :
         Cardinality(windows_of(Adapter_init(RawState), timer_id)) <= 1

\* a merge has left a window with the ids of two windows
C35_Witness ==
  /\ last.op = "process_elements" /\ last.err = ""
  /\ \E w \in DOMAIN global_state :
       Len(global_state[w]) = 2 /\ w \notin DOMAIN last.before.global_state

\* C36 -- at the end of every process_elements or process_timer call that
\* completed without error the window-id map in the backend's global state
\* equals the map its adapter held in memory, so the adapter the next call
\* builds reads the same known windows with the same id lists.
C36_PersistedMapIsMemoryMap ==
  (last.op # "none" /\ last.err = "") =>
    /\ global_state = hist.window_ids
    /\ Adapter_init(RawState).window_ids = hist.window_ids
    /\ known_windows(Adapter_init(RawState)) = DOMAIN hist.window_ids

\* a call whose finished pane deleted a window from the map and registered
\* it again for the tombstone
C36_Witness ==
  /\ last.err = ""
  /\ \E i \in DOMAIN out : out[i].finished /\ out[i].window \in DOMAIN hist.window_ids
  /\ \E w \in DOMAIN last.before.global_state : Len(last.before.global_state[w]) = 2

-----------------------------------------------------------------------------
(* Properties of DefaultTrigger under a ticking runtime, stated of         *)
(* SpecRuntime.                                                            *)

\* the elements stored for the window that no pane has carried yet
unemitted(window) == stored(window) \ AllPaned

C38_EveryElementInOnePane ==
  []<>(cfg.mode = DISCARDING => (1 .. nelems \subseteq AllPaned /\ NoElementTwice))

\* every element has been carried by a pane, a late one by a later pane of a
\* window that had fired before
C38_Witness ==
  /\ cfg.mode = DISCARDING /\ nelems = MaxElems
  /\ AllPaned = 1 .. MaxElems
  /\ \E i, j \in DOMAIN panes :
       /\ i < j
       /\ panes[i].window = panes[j].window
       /\ panes[i].values # <<>> /\ panes[j].values # <<>>
       /\ \A k \in DOMAIN panes[j].values : panes[j].values[k] > panes[i].upto

====
